---- MODULE Spec2Model ----
(***************************************************************************)
(* Orchestration core of the documentation generator:                      *)
(*   - run() of src/doc_generator/main.py: executor, evaluation gate,      *)
(*     retry controller, human approval (HumanInTheLoop), finalizer;       *)
(*   - the HTTP flow of api_server.py: generate_docs and the HITL          *)
(*     endpoints approve / edit over pending_sessions;                     *)
(*   - the Section Parser _split_sections with SECTION_PATTERN.            *)
(*                                                                         *)
(* Scores are means on the 0..10 scale counted in half points (13 = 6.5).  *)
(* A text produced by an executor run is identified by the run that        *)
(* produced it; the retry controller only moves texts around.              *)
(***************************************************************************)
EXTENDS Integers, Sequences, FiniteSets, TLC

VARIABLES
    flow,                \* which entry point this behaviour exercises
    pc,                  \* position inside run()
    MIN_EVAL_SCORE,      \* main.py:87, run parameter
    MAX_RETRY_ATTEMPTS,  \* main.py:88, run parameter
    attempt, raw_output, avg_score, best_output, best_score,
    crew_instance,       \* the crew object run() currently holds
    sections,            \* DocumentSections run() currently holds
    evaluated,           \* history: <<[text, score]>> of every evaluated attempt
    execRuns,            \* number of _run_crew_traced calls started
    failedAt,            \* attempt whose executor run raised inside the retry loop, 0 if none
    displayed,           \* sections whose summary the operator was last shown
    prompts,             \* number of times _prompt_choice asked the operator
    feedback_lines,      \* lines collected by _handle_edit_request
    approval_result,     \* HumanApprovalResult returned to run()
    editLog,             \* every edit-executor run started: [flow, sid, feedback, result]
    finalized,           \* what _write_final_docs persisted, NoDocs before
    pending_sessions,    \* api_server.py:220
    nextSession,         \* next fresh session id
    requests,            \* number of HTTP requests handled
    httpFinalized,       \* every _finalize_and_save that completed: [sid, sections, raw_output]
    lastResponse,        \* status of the last HTTP response
    text,                \* input of the Section Parser
    parsed,              \* result of the Section Parser on text
    pieces,              \* number of pieces the text was received in
    blocks,              \* the <<name, content>> blocks the text was rendered from
    finSections,         \* the DocumentSections mapping handed to a finalizer
    finResult,           \* what the finalizer did with it: [by, raised, files]
    measured,            \* criterion -> raw score its scoring produced, None if it failed
    evaluateOutcome,     \* what deepeval's evaluate() did: raised, or what it returned
    objectsScored,       \* whether evaluate() left the scores on the metric objects passed in
    evalResult,          \* what the evaluation returned: [by, scores, avg_score]
    _Session,            \* shared_memory.py:38, whether _init_db configured a database session
    docgen,              \* the rows of the table 'docgen': [task_description, metadata_json]
    storeLog,            \* the clear() calls and indexing passes a pipeline made on the store
    readLog,             \* what the edit iterations read from the store
    lastSet,             \* key -> value of the latest set(key, .) call since the last clear() call
    everSet,             \* the keys of all set calls so far
    lastCall,            \* the latest call on the store and what it returned
    storeOps,            \* number of calls made on the store
    threads,             \* the concurrent callers of the store and their positions
    taskOutputs,         \* crew_instance.tasks after kickoff: the output of each task in list order
    kickoffResult,       \* what kickoff returned: [raw, str]
    handed,              \* the raw text handed to the Section Parser: [by, raw_output]
    httpEvaluation,      \* the latest evaluation of the server: [raw_output, average_score]
    auto_approve,        \* human_in_the_loop.py:65, the flag HumanInTheLoop was built with
    inputsRead,          \* number of input() calls request_approval has made
    folderKind,          \* what the folder_path given to the indexer is: dir, file or missing
    running,             \* the task the executor is running, "none" between tasks
    lastStart,           \* the latest task start: [task, ready], ready when its context was produced
    execState            \* the kickoff of the crew: idle, running, done or error

runVars  == <<pc, MIN_EVAL_SCORE, MAX_RETRY_ATTEMPTS, attempt, raw_output, avg_score,
              best_output, best_score, crew_instance, sections, evaluated, execRuns,
              failedAt, displayed, prompts, feedback_lines, approval_result, finalized>>
httpVars == <<pending_sessions, nextSession, requests, httpFinalized, lastResponse>>
parseVars == <<text, parsed, pieces, blocks>>
finVars == <<finSections, finResult>>
evalVars == <<measured, evaluateOutcome, objectsScored, evalResult>>
storeVars == <<_Session, docgen, storeLog, readLog>>
callVars == <<lastSet, everSet, lastCall, storeOps, threads>>
taskVars == <<taskOutputs, kickoffResult, handed>>
hitlVars == <<auto_approve, inputsRead>>
execVars == <<folderKind, running, lastStart, execState>>
moreVars == <<taskVars, httpEvaluation, hitlVars, execVars>>
auxVars == <<finVars, evalVars, callVars, moreVars>>
vars == <<flow, runVars, httpVars, parseVars, editLog, auxVars, storeVars>>

----------------------------------------------------------------------------
(* Bounds of the model *)

MaxAttemptsBound == 3   \* MAX_RETRY_ATTEMPTS ranges over 0..MaxAttemptsBound
MaxPrompts == 2         \* operator prompts per run after which only Approve is offered
MaxFeedbackLines == 2   \* lines the operator types into one edit request
MaxRequests == 3        \* HTTP requests handled in one behaviour
MaxPieces == 5          \* pieces (tokens or whole marker lines) of a parsed text
MaxBlocks == 2          \* (marker, content) blocks of a rendered text
MaxStoreOps == 3        \* calls made on the store in one behaviour
MaxTasks == 3           \* tasks in the list of a crew whose outputs are extracted
MaxThreads == 3         \* concurrent writers of the store in one behaviour

\* Mean scores in half points: 5.0, 6.0, 6.5
ScoreValues == {10, 12, 13}
\* Thresholds in half points: 6.0 (the default, main.py:87) and 8.0
ThresholdValues == {12, 16}

----------------------------------------------------------------------------
(* Strings are sequences of characters; whitespace is blank or newline *)

IsSpace(c) == c \in {" ", "\n"}

RECURSIVE lstrip(_)
lstrip(s) == IF s # <<>> /\ IsSpace(Head(s)) THEN lstrip(Tail(s)) ELSE s

RECURSIVE rstrip(_)
rstrip(s) == IF s # <<>> /\ IsSpace(s[Len(s)]) THEN rstrip(SubSeq(s, 1, Len(s) - 1)) ELSE s

\* str.strip()
strip(s) == rstrip(lstrip(s))

\* "\n".join(lines)
RECURSIVE join(_)
join(lines) ==
    IF lines = <<>> THEN <<>>
    ELSE IF Len(lines) = 1 THEN lines[1]
    ELSE lines[1] \o <<"\n">> \o join(Tail(lines))

----------------------------------------------------------------------------
(* Values *)

NoText == [kind |-> "none", id |-> 0]
\* the text produced by the n-th full executor run of this invocation
FullText(n) == [kind |-> "full", id |-> n]
\* the text produced by the edit executor
EditText(n) == [kind |-> "edit", id |-> n]

NoCrew == [kind |-> "none", id |-> 0]
FullCrew(n) == [kind |-> "full", id |-> n]
EditCrew(n) == [kind |-> "edit", id |-> n]

\* DocumentSections are identified by the text they were parsed from and the
\* crew whose task outputs serve as fallback; "empty" is the literal {}.
NoSections == [kind |-> "none", raw |-> NoText, crew |-> NoCrew]
EmptySections == [kind |-> "empty", raw |-> NoText, crew |-> NoCrew]

\* the sections are split from the raw text alone, the task outputs of the crew unread
_extract_sections_from_crew_RawOnly(crew, raw) ==
    [kind |-> "parsed", raw |-> raw, crew |-> NoCrew]

\* main.py:301-337: the sections of a raw output, with the task outputs of the crew as
\* fallback
_extract_sections_from_crew(crew, raw) == [kind |-> "parsed", raw |-> raw, crew |-> crew]

\* dictionaries are functions; d[k] = v and del d[k]
Put(f, k, v) == [x \in DOMAIN f \cup {k} |-> IF x = k THEN v ELSE f[x]]
Remove(f, k) == [x \in DOMAIN f \ {k} |-> f[x]]
EmptyDict == << >>

NoResult == [status |-> "none", feedback |-> <<>>]
NoDocs == [sections |-> NoSections, raw_output |-> NoText]
NoFinalization == [by |-> "none", raised |-> FALSE, files |-> EmptyDict]

----------------------------------------------------------------------------
(* The Section Parser, main.py:91 and 129-140 (the same code is api_server.py:63-91).
   A text is a sequence of tokens: the literal "===SECTION:", the literal "===",
   newline, blank and letters; the string it stands for is their concatenation. *)

OPEN == "===SECTION:"
CLOSE == "==="
NL == "\n"

\* ^ and $ under re.MULTILINE
LineStart(t, p) == p = 1 \/ t[p - 1] = NL
LineEnd(t, c) == c = Len(t) \/ t[c + 1] = NL

\* the first position from i on that holds no whitespace, Len(t) + 1 if there is none
RECURSIVE SkipSpace(_, _)
SkipSpace(t, i) == IF i <= Len(t) /\ IsSpace(t[i]) THEN SkipSpace(t, i + 1) ELSE i

\* main.py:91, SECTION_PATTERN = ^===SECTION:\s*(.+?)\s*===$ matched at position p:
\* the <<s, e, c>> for which the group (.+?) is t[s..e] and the closing === is t[c].
\* \s matches blanks and newlines, . matches everything but a newline.
SECTION_PATTERN(t, p) ==
    IF ~(p <= Len(t) /\ t[p] = OPEN /\ LineStart(t, p)) THEN {}
    ELSE { m \in { <<s, e, SkipSpace(t, e + 1)>> : s \in (p + 1)..SkipSpace(t, p + 1),
                                                   e \in (p + 1)..Len(t) } :
             /\ m[1] <= m[2]
             /\ \A k \in m[1]..m[2] : t[k] # NL
             /\ m[3] <= Len(t) /\ t[m[3]] = CLOSE /\ LineEnd(t, m[3]) }

\* the match the regex engine reports at p: \s* is greedy (the latest start of the
\* group), (.+?) is lazy (the earliest end of the group)
MatchAt(t, p) ==
    LET ms == SECTION_PATTERN(t, p)
        s  == CHOOSE x \in {m[1] : m \in ms} : \A m \in ms : m[1] <= x
        e  == CHOOSE y \in {m[2] : m \in {n \in ms : n[1] = s}} :
                  \A m \in {n \in ms : n[1] = s} : y <= m[2]
    IN  [from |-> p, s |-> s, e |-> e, to |-> SkipSpace(t, e + 1)]

\* the start of the leftmost match at or after i, 0 if there is none
RECURSIVE NextMatch(_, _)
NextMatch(t, i) ==
    IF i > Len(t) THEN 0
    ELSE IF SECTION_PATTERN(t, i) # {} THEN i
    ELSE NextMatch(t, i + 1)

\* SECTION_PATTERN.split(raw) from position i: [preamble, name1, content1, name2, ...]
RECURSIVE RegexSplit(_, _)
RegexSplit(t, i) ==
    LET p == NextMatch(t, i)
    IN  IF p = 0 THEN << SubSeq(t, i, Len(t)) >>
        ELSE LET m == MatchAt(t, p)
             IN  << SubSeq(t, i, p - 1), SubSeq(t, m.s, m.e) >> \o RegexSplit(t, m.to + 1)

\* the loop stops one pair early
MoreParts_Short(i, parts) == i < Len(parts) - 1

\* main.py:134, the condition of the loop over parts (indices count from 1 here)
MoreParts(i, parts) == i < Len(parts)

\* main.py:137, whether a (name, content) pair becomes a section
KeepSection(name, content) == name # <<>> /\ content # <<>>

\* main.py:133-139, the loop of _split_sections from index i with the dict so far
RECURSIVE SplitLoop(_, _, _)
SplitLoop(parts, i, dict) ==
    IF ~MoreParts(i, parts) THEN dict
    ELSE LET name    == strip(parts[i])
             content == strip(parts[i + 1])
         IN  SplitLoop(parts, i + 2,
                       IF KeepSection(name, content) THEN Put(dict, name, content) ELSE dict)

\* the loop starts at the second marker
_split_sections_SkipFirst(raw) == SplitLoop(RegexSplit(raw, 1), 4, EmptyDict)

\* main.py:129-140
_split_sections(raw) == SplitLoop(RegexSplit(raw, 1), 2, EmptyDict)

----------------------------------------------------------------------------
(* The Shared State Store: SharedMemory, tools/shared_memory.py. One instance per
   process (shared_memory.py:40-45) over the table 'docgen'; a value is kept as the
   JSON text of json.dumps. Values are [t, v]: a type and a payload. *)

Str(x) == [t |-> "str", v |-> x]
List(xs) == [t |-> "list", v |-> xs]
Tuple(xs) == [t |-> "tuple", v |-> xs]

\* Python's ==, which is false for values of different types
Equal(a, b) == a.t = b.t /\ a.v = b.v

\* json.dumps: a tuple is written as a JSON array
json_dumps(value) == [json |-> IF value.t = "tuple" THEN "list" ELSE value.t, v |-> value.v]

\* json.loads: a JSON array is read as a list
json_loads(doc) == [t |-> doc.json, v |-> doc.v]

\* the keys that LIKE 'agent_traces%' matches (shared_memory.py:201)
TraceKeys == {"agent_traces_1"}
LikeAgentTraces(key) == key \in TraceKeys

\* the rows of the table with task_description = key
Matching(table, key) == {i \in DOMAIN table : table[i].task_description = key}

\* query(...).filter_by(task_description=key).first(): the row found, 0 when there is none
First(table, key) ==
    IF Matching(table, key) = {} THEN 0
    ELSE CHOOSE i \in Matching(table, key) : \A j \in Matching(table, key) : i <= j

\* shared_memory.py:67-96; db_ok is false when the query or the commit raises
set(table, session, key, value, db_ok) ==
    IF ~session THEN table
    ELSE IF ~db_ok THEN table
    ELSE IF First(table, key) # 0
         THEN [table EXCEPT ![First(table, key)].metadata_json = json_dumps(value)]
         ELSE Append(table, [task_description |-> key, metadata_json |-> json_dumps(value)])

\* the exception of a failed query leaves get
get_Raises(table, session, key, default, db_ok) ==
    IF ~session THEN [raised |-> FALSE, value |-> default]
    ELSE IF ~db_ok THEN [raised |-> TRUE, value |-> default]
    ELSE IF First(table, key) # 0
         THEN [raised |-> FALSE, value |-> json_loads(table[First(table, key)].metadata_json)]
         ELSE [raised |-> FALSE, value |-> default]

\* shared_memory.py:99-114
get(table, session, key, default, db_ok) ==
    IF ~session THEN [raised |-> FALSE, value |-> default]
    ELSE IF ~db_ok THEN [raised |-> FALSE, value |-> default]
    ELSE IF First(table, key) # 0
         THEN [raised |-> FALSE, value |-> json_loads(table[First(table, key)].metadata_json)]
         ELSE [raised |-> FALSE, value |-> default]

\* shared_memory.py:162-173, the list a row holds after one more value was appended
Appended(doc, value) ==
    LET current == json_loads(doc)
    IN  IF current.t = "list" THEN List(Append(current.v, value))
        ELSE List(<<current, value>>)

\* shared_memory.py:152-187
append_to_list(table, session, key, value, db_ok) ==
    IF ~session THEN table
    ELSE IF ~db_ok THEN table
    ELSE IF First(table, key) # 0
         THEN [table EXCEPT ![First(table, key)].metadata_json =
                                json_dumps(Appended(table[First(table, key)].metadata_json, value))]
         ELSE Append(table, [task_description |-> key,
                             metadata_json |-> json_dumps(List(<<value>>))])

\* the rows a clear leaves
Kept(table, keep_traces) ==
    LET Stays(row) == keep_traces /\ LikeAgentTraces(row.task_description)
    IN  SelectSeq(table, Stays)

\* shared_memory.py:190-209
clear(table, session, keep_traces, db_ok) ==
    IF ~session THEN table
    ELSE IF ~db_ok THEN table
    ELSE Kept(table, keep_traces)

\* a call on the store: its arguments, whether the database work succeeded, and for
\* get whether it raised and the value it returned
Call(op, key, arg, keep_traces, db_ok, raised, value) ==
    [op |-> op, key |-> key, arg |-> arg, keep_traces |-> keep_traces, db_ok |-> db_ok,
     raised |-> raised, value |-> value]

NoCall == Call("none", "", Str(""), TRUE, TRUE, FALSE, Str(""))

\* code_analyzer.py:262-384, the indexing of the folder: the store is cleared and the
\* analysis of the folder is written key by key (two of the keys are kept here)
CodeAnalyzer_run(table, session, folder) ==
    LET cleared  == clear(table, session, TRUE, TRUE)
        language == set(cleared, session, "language", Str(folder), TRUE)
    IN  set(language, session, "source_files", List(<<folder>>), TRUE)

\* the store after the clear of a pipeline start (main.py:407, api_server.py:235) and
\* after the executor that followed it, which indexes the folder when indexed holds
StartAndIndex(table, session, folder, indexed) ==
    IF indexed THEN CodeAnalyzer_run(clear(table, session, TRUE, TRUE), session, folder)
    ELSE clear(table, session, TRUE, TRUE)

\* the log of what was applied to the store: nothing is applied without a session
Applied(log, session, ops, by) ==
    IF session THEN log \o [i \in DOMAIN ops |-> [op |-> ops[i], by |-> by]] ELSE log

\* memory_reader.py:45-108: a step of the pipeline reads the language of the codebase
MemoryReader_run(table, session) == get(table, session, "language", Str("unknown"), TRUE).value

\* the folder the command line was started for, and the folder of the n-th HTTP request
CliFolder == "folder"
FolderOf(n) == ToString(n)

----------------------------------------------------------------------------
(* run(), main.py:385-545: executor, evaluation gate and retry controller *)

\* the loop retries also when the score equals the threshold
RetryCondition_AtThreshold(avg, att, minScore, maxAttempts) ==
    avg <= minScore /\ att < maxAttempts

\* the loop allows one attempt more than MAX_RETRY_ATTEMPTS
RetryCondition_OneMore(avg, att, minScore, maxAttempts) ==
    avg < minScore /\ att <= maxAttempts

\* main.py:453, the condition of the retry loop
RetryCondition(avg, att, minScore, maxAttempts) == avg < minScore /\ att < maxAttempts

\* main.py:472-473, the best record after a retry attempt was evaluated
KeepBest(best, cand) == IF cand.score > best.score THEN cand ELSE best

\* the last attempt is handed on whatever the best record holds
SelectFinal_Last(best, last) == last

\* main.py:475-476, the (raw_output, avg_score) pair that leaves the retry loop
SelectFinal(best, last) == IF best.score > last.score THEN best ELSE last

\* main.py:407-442: the store is cleared and the executor runs for the first time, its
\* first task indexing the folder; an exception leaves run() through line 544
RunCrewFirst ==
    /\ flow = "cli" /\ pc = "start"
    /\ execRuns' = execRuns + 1
    /\ \E ok \in BOOLEAN, indexed \in BOOLEAN :
          /\ ok => indexed
          /\ docgen' = StartAndIndex(docgen, _Session, CliFolder, indexed)
          /\ storeLog' = Applied(storeLog, _Session,
                                 IF indexed THEN <<"clear", "clear", "index">>
                                 ELSE <<"clear">>, 1)
          /\ IF ok
             THEN /\ raw_output' = FullText(1)
                  /\ crew_instance' = FullCrew(1)
                  /\ pc' = "evaluate"
             ELSE /\ pc' = "error"
                  /\ UNCHANGED <<raw_output, crew_instance>>
    /\ UNCHANGED <<flow, MIN_EVAL_SCORE, MAX_RETRY_ATTEMPTS, attempt, avg_score, best_output,
                   best_score, sections, evaluated, failedAt, displayed, prompts,
                   feedback_lines, approval_result, finalized, editLog, httpVars, parseVars,
                   auxVars, _Session, readLog>>

\* main.py:445-450: attempt 1 is evaluated and becomes the best record
EvaluateFirst ==
    /\ flow = "cli" /\ pc = "evaluate"
    /\ \E s \in ScoreValues :
          /\ attempt' = 1
          /\ avg_score' = s
          /\ best_output' = raw_output
          /\ best_score' = s
          /\ evaluated' = Append(evaluated, [text |-> raw_output, score |-> s])
    /\ pc' = "loop"
    /\ UNCHANGED <<flow, MIN_EVAL_SCORE, MAX_RETRY_ATTEMPTS, raw_output, crew_instance,
                   sections, execRuns, failedAt, displayed, prompts, feedback_lines,
                   approval_result, finalized, editLog, httpVars, parseVars, auxVars, storeVars>>

\* main.py:203-288: _run_evaluation_traced raises (the audit file cannot be written)
EvaluateRaises ==
    /\ flow = "cli" /\ pc \in {"evaluate", "retry_evaluate"}
    /\ pc' = "error"
    /\ UNCHANGED <<flow, MIN_EVAL_SCORE, MAX_RETRY_ATTEMPTS, attempt, raw_output, avg_score,
                   best_output, best_score, crew_instance, sections, evaluated, execRuns,
                   failedAt, displayed, prompts, feedback_lines, approval_result, finalized,
                   editLog, httpVars, parseVars, auxVars, storeVars>>

\* main.py:453-466: one more pass of the loop runs the whole executor again, its first
\* task indexing the folder again; an executor failure breaks out of the loop
RetryCrew ==
    /\ flow = "cli" /\ pc = "loop"
    /\ RetryCondition(avg_score, attempt, MIN_EVAL_SCORE, MAX_RETRY_ATTEMPTS)
    /\ attempt' = attempt + 1
    /\ execRuns' = execRuns + 1
    /\ \E ok \in BOOLEAN, indexed \in BOOLEAN :
          /\ ok => indexed
          /\ docgen' = IF indexed THEN CodeAnalyzer_run(docgen, _Session, CliFolder)
                       ELSE docgen
          /\ storeLog' = Applied(storeLog, _Session,
                                 IF indexed THEN <<"clear", "index">> ELSE <<>>, attempt + 1)
          /\ IF ok
             THEN /\ raw_output' = FullText(attempt + 1)
                  /\ crew_instance' = FullCrew(attempt + 1)
                  /\ pc' = "retry_evaluate"
                  /\ UNCHANGED failedAt
             ELSE /\ pc' = "select"
                  /\ failedAt' = attempt + 1
                  /\ UNCHANGED <<raw_output, crew_instance>>
    /\ UNCHANGED <<flow, MIN_EVAL_SCORE, MAX_RETRY_ATTEMPTS, avg_score, best_output,
                   best_score, sections, evaluated, displayed, prompts, feedback_lines,
                   approval_result, finalized, editLog, httpVars, parseVars, auxVars,
                   _Session, readLog>>

\* main.py:468-473: the retry attempt is evaluated
EvaluateRetry ==
    /\ flow = "cli" /\ pc = "retry_evaluate"
    /\ \E s \in ScoreValues :
          LET best == KeepBest([text |-> best_output, score |-> best_score],
                               [text |-> raw_output, score |-> s])
          IN  /\ avg_score' = s
              /\ best_output' = best.text
              /\ best_score' = best.score
              /\ evaluated' = Append(evaluated, [text |-> raw_output, score |-> s])
    /\ pc' = "loop"
    /\ UNCHANGED <<flow, MIN_EVAL_SCORE, MAX_RETRY_ATTEMPTS, attempt, raw_output,
                   crew_instance, sections, execRuns, failedAt, displayed, prompts,
                   feedback_lines, approval_result, finalized, editLog, httpVars, parseVars, auxVars, storeVars>>

\* main.py:453: the loop condition is false
ExitLoop ==
    /\ flow = "cli" /\ pc = "loop"
    /\ ~RetryCondition(avg_score, attempt, MIN_EVAL_SCORE, MAX_RETRY_ATTEMPTS)
    /\ pc' = "select"
    /\ UNCHANGED <<flow, MIN_EVAL_SCORE, MAX_RETRY_ATTEMPTS, attempt, raw_output, avg_score,
                   best_output, best_score, crew_instance, sections, evaluated, execRuns,
                   failedAt, displayed, prompts, feedback_lines, approval_result, finalized,
                   editLog, httpVars, parseVars, auxVars, storeVars>>

\* main.py:475-500: the final pair is chosen, sections are extracted and
\* request_approval displays their summary (human_in_the_loop.py:85-86)
SelectAndPresent ==
    /\ flow = "cli" /\ pc = "select"
    /\ LET final == SelectFinal([text |-> best_output, score |-> best_score],
                                [text |-> raw_output, score |-> avg_score])
       IN  /\ raw_output' = final.text
           /\ avg_score' = final.score
           /\ sections' = _extract_sections_from_crew(crew_instance, final.text)
           /\ displayed' = _extract_sections_from_crew(crew_instance, final.text)
    /\ pc' = "prompt"
    /\ UNCHANGED <<flow, MIN_EVAL_SCORE, MAX_RETRY_ATTEMPTS, attempt, best_output,
                   best_score, crew_instance, evaluated, execRuns, failedAt, prompts,
                   feedback_lines, approval_result, finalized, editLog, httpVars, parseVars, auxVars, storeVars>>

----------------------------------------------------------------------------
(* HumanInTheLoop, human_in_the_loop.py, as called by run() with auto_approve = False *)

\* what _prompt_choice(...).upper() can return: the two approve spellings, the
\* two edit spellings and an unrecognized answer
Choices == {"A", "APPROVE", "E", "EDIT", "X"}

\* lines the operator can type at the "> " prompt of _handle_edit_request
InputLines == { <<>>, <<" ">>, <<"a">>, <<" ", "a">> }

\* human_in_the_loop.py:188, the feedback built from the collected lines
CollectedFeedback(lines) == strip(join(lines))

\* human_in_the_loop.py:190, the test that sends the operator back to the menu
NoFeedback(feedback) == feedback = <<>>

\* human_in_the_loop.py:181, a second blank line in a row ends the input
EndsInput(line, lines) ==
    strip(line) = <<>> /\ lines # <<>> /\ strip(lines[Len(lines)]) = <<>>

\* human_in_the_loop.py:88-102: one pass of the menu loop of request_approval
PromptChoice ==
    /\ flow = "cli" /\ pc = "prompt"
    /\ \E choice \in Choices :
          /\ prompts < MaxPrompts \/ choice \in {"A", "APPROVE"}
          /\ IF choice \in {"A", "APPROVE"}
             THEN /\ approval_result' = [status |-> "approved", feedback |-> <<>>]
                  /\ pc' = "write"
             ELSE IF choice \in {"E", "EDIT"}
             THEN /\ pc' = "collect"
                  /\ UNCHANGED approval_result
             ELSE /\ pc' = "prompt"
                  /\ UNCHANGED approval_result
    /\ prompts' = prompts + 1
    /\ feedback_lines' = <<>>
    /\ UNCHANGED <<flow, MIN_EVAL_SCORE, MAX_RETRY_ATTEMPTS, attempt, raw_output, avg_score,
                   best_output, best_score, crew_instance, sections, evaluated, execRuns,
                   failedAt, displayed, finalized, editLog, httpVars, parseVars, auxVars, storeVars>>

\* human_in_the_loop.py:153, input() of the menu raises EOFError, which run() wraps (main.py:544)
PromptEOF ==
    /\ flow = "cli" /\ pc = "prompt"
    /\ pc' = "error"
    /\ UNCHANGED <<flow, MIN_EVAL_SCORE, MAX_RETRY_ATTEMPTS, attempt, raw_output, avg_score,
                   best_output, best_score, crew_instance, sections, evaluated, execRuns,
                   failedAt, displayed, prompts, feedback_lines, approval_result, finalized,
                   editLog, httpVars, parseVars, auxVars, storeVars>>

\* human_in_the_loop.py:188-201: the end of _handle_edit_request. Without feedback it
\* calls request_approval({}, ""), which displays the summary of {} and prompts again.
FinishEditRequest(lines) ==
    LET feedback == CollectedFeedback(lines)
    IN  IF NoFeedback(feedback)
        THEN /\ displayed' = EmptySections
             /\ pc' = "prompt"
             /\ UNCHANGED approval_result
        ELSE /\ approval_result' = [status |-> "edit_requested", feedback |-> feedback]
             /\ pc' = "edit"
             /\ UNCHANGED displayed

\* human_in_the_loop.py:178-184: one line is read
ReadFeedbackLine ==
    /\ flow = "cli" /\ pc = "collect"
    /\ \E line \in InputLines :
          IF EndsInput(line, feedback_lines)
          THEN /\ FinishEditRequest(feedback_lines)
               /\ UNCHANGED feedback_lines
          ELSE /\ Len(feedback_lines) < MaxFeedbackLines
               /\ feedback_lines' = Append(feedback_lines, line)
               /\ UNCHANGED <<pc, approval_result, displayed>>
    /\ UNCHANGED <<flow, MIN_EVAL_SCORE, MAX_RETRY_ATTEMPTS, attempt, raw_output, avg_score,
                   best_output, best_score, crew_instance, sections, evaluated, execRuns,
                   failedAt, prompts, finalized, editLog, httpVars, parseVars, auxVars, storeVars>>

\* human_in_the_loop.py:185-186: end of input ends the collection
ReadFeedbackEOF ==
    /\ flow = "cli" /\ pc = "collect"
    /\ FinishEditRequest(feedback_lines)
    /\ UNCHANGED <<flow, MIN_EVAL_SCORE, MAX_RETRY_ATTEMPTS, attempt, raw_output, avg_score,
                   best_output, best_score, crew_instance, sections, evaluated, execRuns,
                   failedAt, prompts, feedback_lines, finalized, editLog, httpVars, parseVars, auxVars, storeVars>>

----------------------------------------------------------------------------
(* The edit iteration and the finalizer of run() *)

\* DocGenerator.crew_for_edit_iteration is called at main.py:518 and
\* api_server.py:419; crew.py does not define it. Section 4.2 of the specification:
\* the edit variant of the executor, which skips indexing and receives human_feedback.
crew_for_edit_iteration(n) == EditCrew(n)

\* main.py:502-529: the edit executor runs once with the feedback; its output is re-parsed
EditIteration ==
    /\ flow = "cli" /\ pc = "edit"
    /\ approval_result.status = "edit_requested"
    /\ \E ok \in BOOLEAN :
          /\ editLog' = Append(editLog, [flow |-> "cli", sid |-> 0,
                                         feedback |-> approval_result.feedback,
                                         result |-> IF ok THEN "ok" ELSE "crew_raises"])
          /\ IF ok
             THEN /\ raw_output' = EditText(1)
                  /\ sections' = _extract_sections_from_crew(crew_for_edit_iteration(1),
                                                             EditText(1))
                  /\ readLog' = Append(readLog, [sid |-> 0, raw_output |-> raw_output,
                                                 got |-> MemoryReader_run(docgen, _Session)])
                  /\ pc' = "write"
             ELSE /\ pc' = "error"
                  /\ UNCHANGED <<raw_output, sections, readLog>>
    /\ UNCHANGED <<flow, MIN_EVAL_SCORE, MAX_RETRY_ATTEMPTS, attempt, avg_score, best_output,
                   best_score, crew_instance, evaluated, execRuns, failedAt, displayed,
                   prompts, feedback_lines, approval_result, finalized, httpVars, parseVars,
                   auxVars, _Session, docgen, storeLog>>

\* main.py:537, _write_final_docs(sections, raw_output, ...) (main.py:340-367)
WriteFinalDocs ==
    /\ flow = "cli" /\ pc = "write"
    /\ \E ok \in BOOLEAN :
          IF ok
          THEN /\ finalized' = [sections |-> sections, raw_output |-> raw_output]
               /\ pc' = "done"
          ELSE /\ pc' = "error"
               /\ UNCHANGED finalized
    /\ UNCHANGED <<flow, MIN_EVAL_SCORE, MAX_RETRY_ATTEMPTS, attempt, raw_output, avg_score,
                   best_output, best_score, crew_instance, sections, evaluated, execRuns,
                   failedAt, displayed, prompts, feedback_lines, approval_result, editLog,
                   httpVars, parseVars, auxVars, storeVars>>

RunNext ==
    \/ RunCrewFirst \/ EvaluateFirst \/ EvaluateRaises \/ RetryCrew \/ EvaluateRetry
    \/ ExitLoop \/ SelectAndPresent \/ PromptChoice \/ PromptEOF
    \/ ReadFeedbackLine \/ ReadFeedbackEOF \/ EditIteration \/ WriteFinalDocs

----------------------------------------------------------------------------
(* The evaluation gate: run_evaluation (geval_metrics.py:234-347), which
   _run_evaluation_traced (main.py:242-244, 269) and evaluate_docs call, and
   _evaluate_output / run_with_evaluation of crew.py. Scores are counted in
   hundredths: 50 is the raw score 0.5, 700 is 7.0. A mean is kept as the
   fraction num / den. *)

\* geval_metrics.py:219-231, the names of the six metrics as keys
Criteria == {"faithfulness", "toxicity", "hallucination", "answer_relevancy",
             "task_completion", "execution_efficiency"}

\* the score of a metric that was not scored
None == -1

\* raw scores a criterion can get: 0.0, 0.5 (on the scale 0..1), 7.0 (on the scale 0..10)
RawScores == {0, 50, 700}

NoEvaluation == [by |-> "none", scores |-> EmptyDict,
                 avg_score |-> [raised |-> FALSE, num |-> 0, den |-> 1]]

\* geval_metrics.py:295-303, the scale adjustment and the clamp to 0..10
ScaleScore(raw) ==
    LET score == IF raw <= 100 THEN raw * 10
                 ELSE IF raw <= 1000 THEN raw
                 ELSE raw \div 10
    IN  IF score > 1000 THEN 1000 ELSE IF score < 0 THEN 0 ELSE score

\* geval_metrics.py:312 and 330: getattr(metric, 'score', 0) or 0
OrZero(score) == IF score = None THEN 0 ELSE score

RECURSIVE SumOf(_, _)
SumOf(f, S) == IF S = {} THEN 0 ELSE LET c == CHOOSE x \in S : TRUE
                                     IN  f[c] + SumOf(f, S \ {c})

\* sum / n, which raises ZeroDivisionError for n = 0
Divide(sum, n) == [raised |-> n = 0, num |-> sum, den |-> n]

\* the mean is computed without the test for an empty dict
Mean_NoGuard(scores) == Divide(SumOf(scores, DOMAIN scores), Cardinality(DOMAIN scores))

\* geval_metrics.py:346 (and main.py:269): sum(scores.values()) / len(scores) if scores else 0.0
Mean(scores) ==
    IF DOMAIN scores = {} THEN [raised |-> FALSE, num |-> 0, den |-> 1]
    ELSE Divide(SumOf(scores, DOMAIN scores), Cardinality(DOMAIN scores))

\* the score attribute of the metric object of criterion c after evaluate()
MetricScore(c, m, kept) == IF kept THEN m[c] ELSE None

\* geval_metrics.py:311-326 and 329-344: the scores read from the metric objects
FallbackScores(m, kept) == [c \in Criteria |-> ScaleScore(OrZero(MetricScore(c, m, kept)))]

\* geval_metrics.py:283-288: only the metric objects that hold a score
ObjectScores(m, kept) ==
    [c \in {x \in Criteria : MetricScore(x, m, kept) # None} |->
        ScaleScore(MetricScore(c, m, kept))]

\* geval_metrics.py:291-306: the scores of metrics_data; comparing the score None of a
\* failed criterion with 1 raises TypeError, which line 308 answers with the fallback
DataScores(m, kept) ==
    IF \E c \in Criteria : m[c] = None THEN FallbackScores(m, kept)
    ELSE [c \in Criteria |-> ScaleScore(m[c])]

\* geval_metrics.py:234-347
run_evaluation(m, outcome, kept) ==
    LET scores == CASE outcome = "raises" -> FallbackScores(m, kept)
                    [] outcome = "results" -> DataScores(m, kept)
                    [] outcome = "no_data" -> ObjectScores(m, kept)
    IN  [by |-> "run_evaluation", scores |-> scores, avg_score |-> Mean(scores)]

\* crew.py:302-327: each criterion is measured on its own; a failure is recorded with
\* score 0.0 and success False
_evaluate_output(m) ==
    [c \in Criteria |-> IF m[c] = None THEN [score |-> 0, success |-> FALSE]
                        ELSE [score |-> m[c], success |-> TRUE]]

\* crew.py:346-348 and 469-471: the scores of the successes over the number of results
average_score(results) ==
    LET ok == {c \in DOMAIN results : results[c].success}
    IN  IF DOMAIN results = {} THEN [raised |-> FALSE, num |-> 0, den |-> 1]
        ELSE Divide(SumOf([c \in ok |-> results[c].score], ok), Cardinality(DOMAIN results))

\* crew.py:360-434
run_with_evaluation(m) ==
    [by |-> "run_with_evaluation",
     scores |-> [c \in Criteria |-> _evaluate_output(m)[c].score],
     avg_score |-> average_score(_evaluate_output(m))]

----------------------------------------------------------------------------
(* The finalizers: _write_final_docs (main.py:340-367) and _finalize_and_save
   (api_server.py:305-363), both through DocumentationOutput
   (models/documentation_output.py) *)

CanonicalNames == {"README.md", "API_REFERENCE.md", "ARCHITECTURE.md", "EXAMPLES.md",
                   "TEST_DOCUMENTATION.md", "architecture.mermaid"}

\* main.py:93-100
DEFAULT_FILES ==
    [n \in CanonicalNames |->
        CASE n = "README.md" -> "# README\n\nDocumentation was not generated for this section."
          [] n = "API_REFERENCE.md" ->
                "# API Reference\n\nDocumentation was not generated for this section."
          [] n = "ARCHITECTURE.md" ->
                "# Architecture\n\nDocumentation was not generated for this section."
          [] n = "EXAMPLES.md" -> "# Examples\n\nDocumentation was not generated for this section."
          [] n = "TEST_DOCUMENTATION.md" ->
                "# Test Documentation\n\nNo test files were found in the project."
          [] n = "architecture.mermaid" -> "graph TD\n    A[No diagram generated]"]

\* api_server.py:65-71: no entry for TEST_DOCUMENTATION.md
api_DEFAULT_FILES ==
    [n \in CanonicalNames \ {"TEST_DOCUMENTATION.md"} |->
        CASE n = "README.md" -> "# README\n\nDocumentation was not generated for this section."
          [] n = "API_REFERENCE.md" ->
                "# API Reference\n\nDocumentation was not generated for this section."
          [] n = "ARCHITECTURE.md" ->
                "# Architecture\n\nDocumentation was not generated for this section."
          [] n = "EXAMPLES.md" -> "# Examples\n\nDocumentation was not generated for this section."
          [] n = "architecture.mermaid" -> "graph TD\n  A[No diagram generated]"]

\* dict.get(k, default)
Get(d, k, default) == IF k \in DOMAIN d THEN d[k] ELSE default

\* documentation_output.py:10-25: the fields without a default
RequiredFields == {"codebase_path", "language", "readme", "api_reference", "architecture",
                   "examples", "test_documentation", "architecture_diagram"}

\* documentation_output.py:6-25: construction validates the keyword arguments and
\* raises ValidationError when a required field is missing
DocumentationOutput(kwargs) ==
    IF RequiredFields \subseteq DOMAIN kwargs
    THEN [raised |-> FALSE, doc |-> kwargs]
    ELSE [raised |-> TRUE, doc |-> EmptyDict]

\* documentation_output.py:70-77: the file each field is written to
save_to_folder(doc) ==
    [n \in CanonicalNames |->
        CASE n = "README.md" -> doc.readme
          [] n = "API_REFERENCE.md" -> doc.api_reference
          [] n = "ARCHITECTURE.md" -> doc.architecture
          [] n = "EXAMPLES.md" -> doc.examples
          [] n = "TEST_DOCUMENTATION.md" -> doc.test_documentation
          [] n = "architecture.mermaid" -> doc.architecture_diagram]

\* what a finalizer did: whether it raised, and the files it wrote
Finalization(by, out) ==
    IF out.raised THEN [by |-> by, raised |-> TRUE, files |-> EmptyDict]
    ELSE [by |-> by, raised |-> FALSE, files |-> save_to_folder(out.doc)]

\* main.py:340-367
_write_final_docs(secs) ==
    Finalization("_write_final_docs",
        DocumentationOutput(
            [codebase_path |-> "folder_path", language |-> "language",
             readme |-> Get(secs, "README.md", DEFAULT_FILES["README.md"]),
             api_reference |-> Get(secs, "API_REFERENCE.md",
                                   DEFAULT_FILES["API_REFERENCE.md"]),
             architecture |-> Get(secs, "ARCHITECTURE.md", DEFAULT_FILES["ARCHITECTURE.md"]),
             examples |-> Get(secs, "EXAMPLES.md", DEFAULT_FILES["EXAMPLES.md"]),
             test_documentation |-> Get(secs, "TEST_DOCUMENTATION.md",
                                        DEFAULT_FILES["TEST_DOCUMENTATION.md"]),
             architecture_diagram |-> Get(secs, "architecture.mermaid",
                                          DEFAULT_FILES["architecture.mermaid"]),
             summary |-> "summary", total_files |-> 0, total_endpoints |-> 0]))

\* api_server.py:322-333: the chart block put in front of a content; when the
\* injection fails (api_server.py:334) the content stays as it is
WithChart(charts, kind, content) == IF charts THEN <<kind, content>> ELSE content

\* api_server.py:305-363: test_documentation is not among the keyword arguments
_finalize_and_save(secs, charts) ==
    Finalization("_finalize_and_save",
        DocumentationOutput(
            [codebase_path |-> "folder_path", language |-> "language",
             readme |-> WithChart(charts, "file_dist",
                            Get(secs, "README.md", api_DEFAULT_FILES["README.md"])),
             api_reference |-> WithChart(charts, "api_methods",
                            Get(secs, "API_REFERENCE.md",
                                api_DEFAULT_FILES["API_REFERENCE.md"])),
             architecture |-> WithChart(charts, "structural",
                            Get(secs, "ARCHITECTURE.md",
                                api_DEFAULT_FILES["ARCHITECTURE.md"])),
             examples |-> Get(secs, "EXAMPLES.md", api_DEFAULT_FILES["EXAMPLES.md"]),
             architecture_diagram |-> Get(secs, "architecture.mermaid",
                                          api_DEFAULT_FILES["architecture.mermaid"]),
             summary |-> "summary", total_files |-> 0, total_endpoints |-> 0]))

\* the keyword arguments of api_server.py:337-349 are the same for every sections
\* mapping, so whether the construction raises does not depend on the sections
FinalizeAndSaveRaises == \A charts \in BOOLEAN : _finalize_and_save(EmptyDict, charts).raised

----------------------------------------------------------------------------
(* The HTTP flow, api_server.py. The handlers are coroutines that never await,
   so each request runs to its response before the next one starts. *)

\* feedback values of the form field (api_server.py:400, Form(...): a value is required)
HttpFeedbacks == { <<" ">>, <<"a">>, <<" ", "a">> }

\* api_server.py:254 and 429, the sections parsed from a raw output
SectionsOf(raw) == [kind |-> "parsed", raw |-> raw, crew |-> NoCrew]

\* session ids a request can name: every id handed out so far and one never handed out
SessionIds == 1..nextSession

\* api_server.py:402, whether the edit endpoint answers 404
EditRejected(sid, sessions) == sid \notin DOMAIN sessions

\* api_server.py:390, whether the approve endpoint answers 404
ApproveRejected(sid, sessions) == sid \notin DOMAIN sessions

\* the session is kept after its edit was finalized
SessionsAfterEdit_Kept(sid, sessions) == sessions

\* api_server.py:442, the sessions left after an edit that was finalized
SessionsAfterEdit(sid, sessions) == Remove(sessions, sid)

\* api_server.py:233-302, generate_docs behind /generate-from-path and /generate-from-git
GenerateDocs ==
    /\ flow = "http" /\ requests < MaxRequests
    /\ requests' = requests + 1
    /\ \E use_hitl \in BOOLEAN, outcome \in {"ok", "crew_raises", "save_raises"},
          indexed \in BOOLEAN :
          LET raw == FullText(requests + 1)
          IN  /\ outcome # "crew_raises" => indexed
              /\ IF outcome = "crew_raises"
                 THEN UNCHANGED httpEvaluation
                 ELSE \E s \in ScoreValues :
                         httpEvaluation' = [raw_output |-> raw, average_score |-> s]
              /\ docgen' = StartAndIndex(docgen, _Session, FolderOf(requests + 1), indexed)
              /\ storeLog' = Applied(storeLog, _Session,
                                     IF indexed THEN <<"clear", "clear", "index">>
                                     ELSE <<"clear">>, requests + 1)
              /\ IF outcome = "crew_raises"
                 THEN /\ lastResponse' = 500
                      /\ UNCHANGED <<pending_sessions, nextSession, httpFinalized>>
                 ELSE IF use_hitl
                 THEN /\ outcome = "ok"
                      /\ pending_sessions' = Put(pending_sessions, nextSession,
                                                 [sections |-> SectionsOf(raw), raw_output |-> raw])
                      /\ nextSession' = nextSession + 1
                      /\ lastResponse' = 200
                      /\ UNCHANGED httpFinalized
                 ELSE IF outcome = "ok"
                 THEN /\ ~FinalizeAndSaveRaises
                      /\ httpFinalized' = Append(httpFinalized,
                                                 [sid |-> 0, sections |-> SectionsOf(raw),
                                                  raw_output |-> raw])
                      /\ lastResponse' = 200
                      /\ UNCHANGED <<pending_sessions, nextSession>>
                 ELSE /\ lastResponse' = 500
                      /\ UNCHANGED <<pending_sessions, nextSession, httpFinalized>>
    /\ UNCHANGED <<flow, runVars, parseVars, finVars, evalVars, callVars, taskVars, hitlVars,
                   execVars,
                   _Session, readLog, editLog>>

\* api_server.py:388-396, POST /hitl/{session_id}/approve
ApproveSession ==
    /\ flow = "http" /\ requests < MaxRequests
    /\ requests' = requests + 1
    /\ \E sid \in SessionIds, ok \in BOOLEAN :
          IF ApproveRejected(sid, pending_sessions)
          THEN /\ ok
               /\ lastResponse' = 404
               /\ UNCHANGED <<pending_sessions, httpFinalized>>
          ELSE /\ pending_sessions' = Remove(pending_sessions, sid)
               /\ IF ok
                  THEN /\ ~FinalizeAndSaveRaises
                       /\ httpFinalized' = Append(httpFinalized,
                              [sid |-> sid, sections |-> pending_sessions[sid].sections,
                               raw_output |-> pending_sessions[sid].raw_output])
                       /\ lastResponse' = 200
                  ELSE /\ lastResponse' = 500
                       /\ UNCHANGED httpFinalized
    /\ UNCHANGED <<flow, runVars, parseVars, auxVars, storeVars, editLog, nextSession>>

\* api_server.py:399-451, POST /hitl/{session_id}/edit
EditSession ==
    /\ flow = "http" /\ requests < MaxRequests
    /\ requests' = requests + 1
    /\ \E sid \in SessionIds, feedback \in HttpFeedbacks,
          outcome \in {"ok", "crew_raises", "save_raises"} :
          IF EditRejected(sid, pending_sessions)
          THEN /\ outcome = "ok"
               /\ lastResponse' = 404
               /\ UNCHANGED <<pending_sessions, httpFinalized, editLog, readLog,
                              httpEvaluation>>
          ELSE LET raw == EditText(requests + 1)
               IN  /\ IF outcome = "crew_raises"
                      THEN UNCHANGED httpEvaluation
                      ELSE \E s \in ScoreValues :
                              httpEvaluation' = [raw_output |-> raw, average_score |-> s]
                   /\ editLog' = Append(editLog, [flow |-> "http", sid |-> sid,
                                           feedback |-> feedback, result |-> outcome])
                   /\ readLog' =
                         IF outcome = "crew_raises" THEN readLog
                         ELSE Append(readLog,
                                     [sid |-> sid,
                                      raw_output |-> pending_sessions[sid].raw_output,
                                      got |-> MemoryReader_run(docgen, _Session)])
                   /\ IF outcome = "ok"
                      THEN /\ ~FinalizeAndSaveRaises
                           /\ httpFinalized' = Append(httpFinalized,
                                  [sid |-> sid, sections |-> SectionsOf(raw),
                                   raw_output |-> raw])
                           /\ pending_sessions' = SessionsAfterEdit(sid, pending_sessions)
                           /\ lastResponse' = 200
                      ELSE /\ lastResponse' = 500
                           /\ UNCHANGED <<pending_sessions, httpFinalized>>
    /\ UNCHANGED <<flow, runVars, parseVars, finVars, evalVars, callVars, taskVars, hitlVars,
                   execVars,
                   _Session, docgen, storeLog, nextSession>>

HttpNext == GenerateDocs \/ ApproveSession \/ EditSession

----------------------------------------------------------------------------
(* The pipeline: one run() of the command line, or requests to the HTTP server *)

IdleRun ==
    /\ pc = "start"
    /\ attempt = 0 /\ raw_output = NoText /\ avg_score = 0
    /\ best_output = NoText /\ best_score = 0
    /\ crew_instance = NoCrew /\ sections = NoSections
    /\ evaluated = <<>> /\ execRuns = 0 /\ failedAt = 0
    /\ displayed = NoSections /\ prompts = 0 /\ feedback_lines = <<>>
    /\ approval_result = NoResult /\ finalized = NoDocs

IdleHttp ==
    /\ pending_sessions = EmptyDict /\ nextSession = 1 /\ requests = 0
    /\ httpFinalized = <<>> /\ lastResponse = 0

IdleParse == text = <<>> /\ parsed = EmptyDict /\ pieces = 0 /\ blocks = <<>>

IdleFinalize == finSections = EmptyDict /\ finResult = NoFinalization

IdleEval ==
    /\ measured = [c \in Criteria |-> None]
    /\ evaluateOutcome = "raises" /\ objectsScored = FALSE
    /\ evalResult = NoEvaluation

IdleCalls ==
    /\ lastSet = EmptyDict /\ everSet = {} /\ lastCall = NoCall /\ storeOps = 0
    /\ threads = <<>>

\* the table is empty and no pipeline has used the store
IdleStore == docgen = <<>> /\ storeLog = <<>> /\ readLog = <<>>

\* no crew has been kicked off outside run() and generate_docs
NoOutput == [present |-> FALSE, raw |-> <<>>]
NoResultObject == [raw |-> <<>>, str |-> <<>>]
NotHanded == [by |-> "none", raw_output |-> <<>>]
IdleTasks == taskOutputs = <<>> /\ kickoffResult = NoResultObject /\ handed = NotHanded

\* the server has evaluated nothing
NotEvaluated == [raw_output |-> NoText, average_score |-> 0]

\* run() builds HumanInTheLoop(auto_approve=False) (main.py:493)
IdleHitl == auto_approve = FALSE /\ inputsRead = 0

\* no crew is being executed task by task
NoStart == [task |-> "none", ready |-> TRUE]
IdleExec == folderKind = "dir" /\ running = "none" /\ lastStart = NoStart /\ execState = "idle"

IdleMore == IdleTasks /\ httpEvaluation = NotEvaluated /\ IdleHitl /\ IdleExec

IdleAux == IdleFinalize /\ IdleEval /\ IdleCalls /\ IdleMore

Init ==
    /\ flow \in {"cli", "http"}
    /\ MIN_EVAL_SCORE \in ThresholdValues
    /\ MAX_RETRY_ATTEMPTS \in 0..MaxAttemptsBound
    /\ flow = "http" => MIN_EVAL_SCORE = 12 /\ MAX_RETRY_ATTEMPTS = 2
    /\ IdleRun /\ IdleHttp /\ IdleParse /\ IdleAux
    /\ IdleStore /\ _Session \in BOOLEAN
    /\ editLog = <<>>

Next == RunNext \/ HttpNext

Spec == Init /\ [][Next]_vars

----------------------------------------------------------------------------
(* Properties of the retry controller *)

\* the (raw_output, avg_score) pair of run() is the one handed on to approval
HandedOn ==
    /\ flow = "cli"
    /\ \/ pc \in {"prompt", "collect", "edit"}
       \/ pc \in {"write", "done"} /\ approval_result.status = "approved"

Max(a, b) == IF a >= b THEN a ELSE b

\* the highest mean score among the evaluated attempts
BestScoreOf(history) ==
    CHOOSE m \in {history[i].score : i \in DOMAIN history} :
        \A j \in DOMAIN history : history[j].score <= m

\* the earliest attempt that reached the highest mean score
EarliestBest(history) ==
    CHOOSE i \in DOMAIN history :
        /\ history[i].score = BestScoreOf(history)
        /\ \A j \in DOMAIN history : history[j].score = BestScoreOf(history) => i <= j

\* C1: the pair handed on to approval is the text and the mean score of one and the
\* same evaluated attempt, and no evaluated attempt of the run scored higher.
C1_FinalIsAnEvaluatedBest ==
    HandedOn =>
        /\ \E i \in DOMAIN evaluated :
              evaluated[i] = [text |-> raw_output, score |-> avg_score]
        /\ \A j \in DOMAIN evaluated : evaluated[j].score <= avg_score

\* threshold never met, and the best attempt is not the last one
C1_Witness ==
    /\ HandedOn /\ pc = "done"
    /\ Len(evaluated) = 2 /\ evaluated[1].score = 13 /\ evaluated[2].score = 10
    /\ MIN_EVAL_SCORE = 16 /\ raw_output = FullText(1)

\* C2: once an attempt n has a mean score >= threshold (equality included) no executor
\* run and no evaluation follows: n stays the last attempt, attempts_used = n, and the
\* text and score handed on are those of attempt n.
C2_PassStopsTheLoop ==
    flow = "cli" =>
        \A n \in DOMAIN evaluated :
            evaluated[n].score >= MIN_EVAL_SCORE =>
                /\ n = Len(evaluated)
                /\ execRuns = n
                /\ attempt = n
                /\ pc # "retry_evaluate"
                /\ HandedOn => /\ raw_output = evaluated[n].text
                               /\ avg_score = evaluated[n].score
                               /\ raw_output = FullText(n)

\* threshold 6.0, attempt 1 mean 6.0, two attempts allowed: passed after one attempt
C2_Witness ==
    /\ flow = "cli" /\ pc = "done"
    /\ MIN_EVAL_SCORE = 12 /\ MAX_RETRY_ATTEMPTS = 2
    /\ evaluated = <<[text |-> FullText(1), score |-> 12]>>
    /\ attempt = 1 /\ execRuns = 1 /\ finalized.raw_output = FullText(1)

\* C3: a run starts the executor at least once and at most max(1, max_attempts) times,
\* evaluates at most once per completed executor run, and with max_attempts = 1
\* evaluates exactly once and never starts the executor a second time.
C3_BoundedAttempts ==
    flow = "cli" =>
        /\ pc # "start" => execRuns >= 1
        /\ execRuns <= Max(1, MAX_RETRY_ATTEMPTS)
        /\ Len(evaluated) <= execRuns - (IF failedAt # 0 THEN 1 ELSE 0)
        /\ attempt <= execRuns
        /\ MAX_RETRY_ATTEMPTS = 1 =>
              /\ execRuns <= 1
              /\ Len(evaluated) <= 1
              /\ HandedOn => Len(evaluated) = 1 /\ execRuns = 1

\* max_attempts = 1 and a score below the threshold: still one run, one evaluation
C3_Witness ==
    /\ flow = "cli" /\ pc = "done"
    /\ MAX_RETRY_ATTEMPTS = 1 /\ MIN_EVAL_SCORE = 16
    /\ Len(evaluated) = 1 /\ evaluated[1].score = 10 /\ execRuns = 1

\* C4: when several evaluated attempts share the highest mean score, the text handed
\* on as final output is that of the earliest of them.
C4_TiesKeepEarliest ==
    HandedOn => raw_output = evaluated[EarliestBest(evaluated)].text

\* C5: when the executor raises during a retry attempt, no executor run and no
\* evaluation follows, the run does not end with an error because of it, and the
\* final (text, score) is the best record kept before the failure.
C5_FailedRetrySurfacesBest ==
    (flow = "cli" /\ failedAt # 0) =>
        /\ execRuns = failedAt
        /\ Len(evaluated) = failedAt - 1
        /\ pc \notin {"loop", "retry_evaluate", "evaluate"}
        /\ HandedOn => /\ raw_output = best_output
                       /\ avg_score = best_score
                       /\ raw_output = evaluated[EarliestBest(evaluated)].text

----------------------------------------------------------------------------
(* Properties of the human approval state machine *)

\* C6: no edit-executor run is started with feedback that is empty after trimming,
\* neither by run() nor by the HTTP edit endpoint.
C6_NoEditWithoutFeedback ==
    \A i \in DOMAIN editLog : strip(editLog[i].feedback) # <<>>

EditRunsOf(f, sid) == {i \in DOMAIN editLog : editLog[i].flow = f /\ editLog[i].sid = sid}

FinalizationsOf(sid) == {i \in DOMAIN httpFinalized : httpFinalized[i].sid = sid}

C7_EditState ==
    /\ flow = "cli" =>
          /\ Cardinality(EditRunsOf("cli", 0)) <= 1
          /\ (editLog # <<>>) =>
                /\ approval_result = [status |-> "edit_requested",
                                      feedback |-> editLog[1].feedback]
                /\ editLog[1].result = "ok" => pc \in {"write", "done", "error"}
                /\ editLog[1].result # "ok" => pc = "error" /\ finalized = NoDocs
          /\ (pc = "done" /\ approval_result.status = "edit_requested") =>
                /\ Len(editLog) = 1 /\ editLog[1].result = "ok"
                /\ finalized = [sections |-> [kind |-> "parsed", raw |-> EditText(1),
                                              crew |-> EditCrew(1)],
                                raw_output |-> EditText(1)]
    /\ flow = "http" =>
          \A sid \in 1..nextSession :
              /\ Cardinality(FinalizationsOf(sid)) <= 1
              /\ Cardinality({i \in EditRunsOf("http", sid) : editLog[i].result = "ok"}) <= 1
              /\ \A i \in EditRunsOf("http", sid) :
                    editLog[i].result = "ok" =>
                        /\ sid \notin DOMAIN pending_sessions
                        /\ \A j \in EditRunsOf("http", sid) : j <= i
                        /\ \E k \in FinalizationsOf(sid) :
                              /\ httpFinalized[k].raw_output.kind = "edit"
                              /\ httpFinalized[k].sections =
                                     SectionsOf(httpFinalized[k].raw_output)

\* the part of the amended C7 about steps: once run() holds an edit request the operator
\* is not prompted again, and a finalized session never returns to pending_sessions
C7_EditStep ==
    /\ approval_result.status = "edit_requested" =>
          /\ prompts' = prompts
          /\ displayed' = displayed
          /\ approval_result' = approval_result
    /\ \A sid \in 1..nextSession :
          (FinalizationsOf(sid) # {}) => sid \notin DOMAIN pending_sessions'

----------------------------------------------------------------------------
(* The Section Parser applied to the raw output of an executor run
   (main.py:303, api_server.py:254 and 429) *)

Tokens == {OPEN, CLOSE, NL, " ", "a"}
MarkerNames == {"a", "b"}

\* the line ===SECTION: name=== with its newline
MarkerLine(name) == <<OPEN, " ", name, CLOSE, NL>>

ParseInit ==
    /\ flow = "parse"
    /\ MIN_EVAL_SCORE = 12 /\ MAX_RETRY_ATTEMPTS = 2
    /\ IdleRun /\ IdleHttp /\ IdleParse /\ IdleAux
    /\ IdleStore /\ _Session = TRUE
    /\ editLog = <<>>

\* the output grows by one token and is parsed
ReceiveToken ==
    /\ flow = "parse" /\ pieces < MaxPieces
    /\ \E tok \in Tokens :
          /\ text' = Append(text, tok)
          /\ parsed' = _split_sections(Append(text, tok))
    /\ pieces' = pieces + 1
    /\ UNCHANGED <<flow, runVars, httpVars, auxVars, storeVars, editLog, blocks>>

\* the output grows by a whole marker line and is parsed
ReceiveMarkerLine ==
    /\ flow = "parse" /\ pieces < MaxPieces
    /\ \E name \in MarkerNames :
          /\ text' = text \o MarkerLine(name)
          /\ parsed' = _split_sections(text \o MarkerLine(name))
    /\ pieces' = pieces + 1
    /\ UNCHANGED <<flow, runVars, httpVars, auxVars, storeVars, editLog, blocks>>

ParseNext == ReceiveToken \/ ReceiveMarkerLine

SpecParse == ParseInit /\ [][ParseNext]_vars

\* the markers of a text from position i on, each with the text that follows it up to
\* the next marker or the end of the input
RECURSIVE Markers(_, _)
Markers(t, i) ==
    LET p == NextMatch(t, i)
    IN  IF p = 0 THEN <<>>
        ELSE LET m == MatchAt(t, p)
                 q == NextMatch(t, m.to + 1)
                 stop == IF q = 0 THEN Len(t) ELSE q - 1
             IN  << [name |-> SubSeq(t, m.s, m.e), content |-> SubSeq(t, m.to + 1, stop)] >>
                 \o Markers(t, m.to + 1)

\* the markers whose trimmed name and trimmed content are both non-empty
Qualifying(ms) ==
    {k \in DOMAIN ms : strip(ms[k].name) # <<>> /\ strip(ms[k].content) # <<>>}

\* C8: _split_sections returns exactly the trimmed name -> trimmed content pairs of the
\* markers whose trimmed name and content are non-empty (the last marker of a name
\* giving its content), and nothing else; zero markers give the empty mapping.
C8_ExactlyTheNonEmptySections ==
    flow = "parse" =>
        LET ms == Markers(text, 1)
            q  == Qualifying(ms)
        IN  /\ DOMAIN parsed = {strip(ms[k].name) : k \in q}
            /\ \A k \in q :
                  (\A j \in q : strip(ms[j].name) = strip(ms[k].name) => j <= k)
                      => parsed[strip(ms[k].name)] = strip(ms[k].content)
            /\ ms = <<>> => parsed = EmptyDict

\* the scenario ===SECTION: a===\na\n===SECTION: b===\n\n: only section a is returned
C8_Witness ==
    /\ flow = "parse"
    /\ text = MarkerLine("a") \o <<"a", NL>> \o MarkerLine("b") \o <<NL>>
    /\ Len(Markers(text, 1)) = 2
    /\ parsed = [n \in {<<"a">>} |-> <<"a">>]

----------------------------------------------------------------------------
(* Rendering DocumentSections as marker blocks and parsing the result *)

BlockNames == { <<"a">>, <<"b">>, <<"a", "b">> }
BlockContents == { <<>>, <<"a">>, <<"b">>, <<CLOSE>>, <<OPEN>>, <<"a", NL, OPEN>> }

\* ===SECTION: name===\ncontent
RenderBlock(b) == <<OPEN, " ">> \o b[1] \o <<CLOSE, NL>> \o b[2]

\* the blocks one after another, each on lines of its own
Render(bs) == join([i \in DOMAIN bs |-> RenderBlock(bs[i])])

BlocksInit ==
    /\ flow = "blocks"
    /\ MIN_EVAL_SCORE = 12 /\ MAX_RETRY_ATTEMPTS = 2
    /\ IdleRun /\ IdleHttp /\ IdleParse /\ IdleAux
    /\ IdleStore /\ _Session = TRUE
    /\ editLog = <<>>

\* one more block is rendered and the whole text is parsed
AddBlock ==
    /\ flow = "blocks" /\ Len(blocks) < MaxBlocks
    /\ \E name \in BlockNames, content \in BlockContents :
          LET bs == Append(blocks, <<name, content>>)
          IN  /\ blocks' = bs
              /\ text' = Render(bs)
              /\ parsed' = _split_sections(Render(bs))
    /\ pieces' = pieces + 1
    /\ UNCHANGED <<flow, runVars, httpVars, auxVars, storeVars, editLog>>

SpecBlocks == BlocksInit /\ [][AddBlock]_vars

DistinctNames(bs) == \A i, j \in DOMAIN bs : strip(bs[i][1]) = strip(bs[j][1]) => i = j

\* a DocumentSections mapping: distinct names; names and contents trimmed, non-empty
\* and without a marker
IsDocumentSections(bs) ==
    /\ DistinctNames(bs)
    /\ \A i \in DOMAIN bs :
          /\ bs[i][1] # <<>> /\ strip(bs[i][1]) = bs[i][1] /\ NextMatch(bs[i][1], 1) = 0
          /\ bs[i][2] # <<>> /\ strip(bs[i][2]) = bs[i][2] /\ NextMatch(bs[i][2], 1) = 0

MappingOf(bs) == [n \in {bs[i][1] : i \in DOMAIN bs} |->
                     bs[CHOOSE i \in DOMAIN bs : bs[i][1] = n][2]]

\* C9: rendering a DocumentSections mapping and parsing the result yields the mapping.
C9_RoundTrip ==
    (flow = "blocks" /\ IsDocumentSections(blocks)) => parsed = MappingOf(blocks)

Orderings(n) == {f \in [1..n -> 1..n] : \A i, j \in 1..n : f[i] = f[j] => i = j}
Permuted(bs, f) == [i \in DOMAIN bs |-> bs[f[i]]]

OrderIndependent(bs) ==
    \A f \in Orderings(Len(bs)) : _split_sections(Render(Permuted(bs, f))) = parsed

\* C10 as stated: permuting the blocks of any input, repeated names included, yields
\* the same mapping.
C10_AnyOrderSameMapping == flow = "blocks" => OrderIndependent(blocks)

\* no line of the content begins with ===SECTION:
NoOpenLine(content) == \A p \in DOMAIN content : content[p] = OPEN => ~LineStart(content, p)

\* C10 (amended): permuting the blocks yields the same mapping when the trimmed marker
\* names are pairwise distinct and no content has a line that begins with ===SECTION:.
C10_DistinctNamesAnyOrder ==
    (flow = "blocks" /\ DistinctNames(blocks) /\ \A i \in DOMAIN blocks : NoOpenLine(blocks[i][2]))
        => OrderIndependent(blocks)

\* two blocks with distinct names and content, parsed into two sections
C10_Witness ==
    /\ flow = "blocks" /\ Len(blocks) = 2
    /\ blocks[1][1] # blocks[2][1]
    /\ blocks[1][2] = <<"a">> /\ blocks[2][2] = <<"b">>
    /\ Cardinality(DOMAIN parsed) = 2

----------------------------------------------------------------------------
(* The marker grammar *)

\* the markers SECTION_PATTERN.split recognizes in t from position i on, as the
\* positions of their ===SECTION: and of their closing ===
RECURSIVE MarkerSpans(_, _)
MarkerSpans(t, i) ==
    LET p == NextMatch(t, i)
    IN  IF p = 0 THEN <<>>
        ELSE << [from |-> p, to |-> MatchAt(t, p).to] >> \o MarkerSpans(t, MatchAt(t, p).to + 1)

\* the marker begins its line, ends its line and holds no newline
OnOneLine(t, span) ==
    /\ LineStart(t, span.from)
    /\ LineEnd(t, span.to)
    /\ \A k \in span.from..span.to : t[k] # NL

\* C11: a marker is recognized only when ===SECTION:, the name and the closing ===
\* stand alone on one single line.
C11_MarkerOnOneLine ==
    flow = "parse" =>
        \A k \in DOMAIN MarkerSpans(text, 1) : OnOneLine(text, MarkerSpans(text, 1)[k])

----------------------------------------------------------------------------
(* The finalizers applied to a DocumentSections mapping *)

\* names a DocumentSections mapping can hold: the canonical ones and one other
SectionNames == CanonicalNames \cup {"NOTES.md"}
SectionContents == {"x"}

FinalizeInit ==
    /\ flow = "final"
    /\ MIN_EVAL_SCORE = 12 /\ MAX_RETRY_ATTEMPTS = 2
    /\ IdleRun /\ IdleHttp /\ IdleParse /\ IdleEval /\ IdleCalls /\ IdleMore
    /\ IdleStore /\ _Session = TRUE
    /\ editLog = <<>>
    /\ \E names \in SUBSET SectionNames : finSections \in [names -> SectionContents]
    /\ finResult = NoFinalization

\* run() finalizes the mapping (main.py:537)
FinalizeByRun ==
    /\ flow = "final" /\ finResult = NoFinalization
    /\ finResult' = _write_final_docs(finSections)
    /\ UNCHANGED <<flow, runVars, httpVars, parseVars, editLog, moreVars, evalVars, callVars, storeVars,
                   finSections>>

\* the HTTP server finalizes the mapping (api_server.py:297, 394, 439)
FinalizeByServer ==
    /\ flow = "final" /\ finResult = NoFinalization
    /\ \E charts \in BOOLEAN : finResult' = _finalize_and_save(finSections, charts)
    /\ UNCHANGED <<flow, runVars, httpVars, parseVars, editLog, moreVars, evalVars, callVars, storeVars,
                   finSections>>

FinalizeNext == FinalizeByRun \/ FinalizeByServer

SpecFinalize == FinalizeInit /\ [][FinalizeNext]_vars

\* the content the contract wants in the canonical file n
Persisted(secs, n) == IF n \in DOMAIN secs THEN secs[n] ELSE DEFAULT_FILES[n]

\* C12: whatever the DocumentSections mapping, a finalizer completes and writes every
\* canonical file, with the parsed content where the section is present and the
\* canonical default otherwise.
C12_FinalizerFillsDefaults ==
    (flow = "final" /\ finResult # NoFinalization) =>
        /\ ~finResult.raised
        /\ DOMAIN finResult.files = CanonicalNames
        /\ \A n \in CanonicalNames : finResult.files[n] = Persisted(finSections, n)

\* the part of C12 that holds: _write_final_docs
C12_WriteFinalDocsFillsDefaults ==
    (flow = "final" /\ finResult.by = "_write_final_docs") =>
        /\ ~finResult.raised
        /\ \A n \in CanonicalNames : finResult.files[n] = Persisted(finSections, n)

----------------------------------------------------------------------------
(* The evaluation of one output *)

EvaluateOutcomes == {"raises", "results", "no_data"}

EvalInit ==
    /\ flow = "eval"
    /\ MIN_EVAL_SCORE = 12 /\ MAX_RETRY_ATTEMPTS = 2
    /\ IdleRun /\ IdleHttp /\ IdleParse /\ IdleFinalize /\ IdleCalls /\ IdleMore
    /\ IdleStore /\ _Session = TRUE
    /\ editLog = <<>>
    /\ measured \in [Criteria -> RawScores \cup {None}]
    /\ evaluateOutcome \in EvaluateOutcomes
    /\ objectsScored \in BOOLEAN
    /\ evalResult = NoEvaluation

\* main.py:242, api_server.py:201: the output is evaluated by run_evaluation
RunEvaluation ==
    /\ flow = "eval" /\ evalResult = NoEvaluation
    /\ evalResult' = run_evaluation(measured, evaluateOutcome, objectsScored)
    /\ UNCHANGED <<flow, runVars, httpVars, parseVars, editLog, moreVars, finVars, callVars, storeVars,
                   measured, evaluateOutcome, objectsScored>>

\* crew.py:398: the output is evaluated by DocGenerator.run_with_evaluation
RunWithEvaluation ==
    /\ flow = "eval" /\ evalResult = NoEvaluation
    /\ evalResult' = run_with_evaluation(measured)
    /\ UNCHANGED <<flow, runVars, httpVars, parseVars, editLog, moreVars, finVars, callVars, storeVars,
                   measured, evaluateOutcome, objectsScored>>

EvalNext == RunEvaluation \/ RunWithEvaluation

SpecEval == EvalInit /\ [][EvalNext]_vars

\* the criteria whose scoring succeeded
Scored(m) == {c \in Criteria : m[c] # None}

\* the score a successfully scored criterion has on the scale of the evaluation
ScoreOf(c) == IF evalResult.by = "run_evaluation" THEN ScaleScore(measured[c]) ELSE measured[c]

\* C13: the average score is the arithmetic mean of the scores of exactly the criteria
\* that were scored successfully; a failed criterion adds nothing to the sum and
\* nothing to the divisor.
C13_FailedCriteriaExcluded ==
    (flow = "eval" /\ evalResult # NoEvaluation /\ Scored(measured) # {}) =>
        /\ ~evalResult.avg_score.raised
        /\ evalResult.avg_score.num * Cardinality(Scored(measured))
             = SumOf([c \in Scored(measured) |-> ScoreOf(c)], Scored(measured))
                 * evalResult.avg_score.den

\* the mean as the whole number of hundredths below it
Floor(avg) == avg.num \div avg.den

\* thresholds above 0 on the scale of the evaluation: 0.01, 6.0 and 8.0
PositiveThresholds == {1} \cup {50 * t : t \in ThresholdValues}

\* the evaluation returned the mean 0.0, and with it a run retries while attempts remain
ZeroAndRetried(avg) ==
    /\ ~avg.raised
    /\ avg.num = 0
    /\ \A t \in PositiveThresholds, m \in 1..MaxAttemptsBound, a \in 1..MaxAttemptsBound :
          a < m => RetryCondition(Floor(avg), a, t, m)

\* C14 as stated: when the scoring of every criterion fails, and also whenever the
\* whole evaluate call raises, the evaluation returns the mean 0.0.
C14_FailureMeansZero ==
    (/\ flow = "eval" /\ evalResult.by = "run_evaluation"
     /\ (Scored(measured) = {} \/ evaluateOutcome = "raises"))
        => ZeroAndRetried(evalResult.avg_score)

\* C14 (amended): when the scoring of every criterion fails, whether evaluate raises or
\* returns, the evaluation does not raise and returns the mean 0.0, which is below every
\* positive threshold and leads to a retry while attempts remain.
C14_AllFailedMeansZero ==
    (flow = "eval" /\ evalResult.by = "run_evaluation" /\ Scored(measured) = {})
        => ZeroAndRetried(evalResult.avg_score)

\* every criterion failed and evaluate() returned a result without metrics data
C14_Witness ==
    /\ flow = "eval" /\ evalResult.by = "run_evaluation"
    /\ Scored(measured) = {} /\ evaluateOutcome = "no_data"
    /\ evalResult.scores = EmptyDict
    /\ evalResult.avg_score = [raised |-> FALSE, num |-> 0, den |-> 1]

----------------------------------------------------------------------------
(* The store under a sequence of set, get and clear calls of one caller *)

StoreKeys == {"language", "source_files"} \cup TraceKeys
StoreValues == {Str("a"), Str("b"), Tuple(<<"a">>)}
Defaults == {Str("d")}

StoreInit ==
    /\ flow = "store"
    /\ MIN_EVAL_SCORE = 12 /\ MAX_RETRY_ATTEMPTS = 2
    /\ IdleRun /\ IdleHttp /\ IdleParse /\ IdleAux
    /\ IdleStore /\ _Session \in BOOLEAN
    /\ editLog = <<>>

\* SharedMemory().set(key, value)
StoreSet ==
    /\ flow = "store" /\ storeOps < MaxStoreOps
    /\ \E key \in StoreKeys, value \in StoreValues, db_ok \in BOOLEAN :
          /\ docgen' = set(docgen, _Session, key, value, db_ok)
          /\ lastSet' = Put(lastSet, key, value)
          /\ everSet' = everSet \cup {key}
          /\ lastCall' = Call("set", key, value, TRUE, db_ok, FALSE, value)
    /\ storeOps' = storeOps + 1
    /\ UNCHANGED <<flow, runVars, httpVars, parseVars, editLog, moreVars, finVars, evalVars, threads,
                   _Session, storeLog, readLog>>

\* SharedMemory().get(key, default)
StoreGet ==
    /\ flow = "store" /\ storeOps < MaxStoreOps
    /\ \E key \in StoreKeys, default \in Defaults, db_ok \in BOOLEAN :
          LET r == get(docgen, _Session, key, default, db_ok)
          IN  lastCall' = Call("get", key, default, TRUE, db_ok, r.raised, r.value)
    /\ storeOps' = storeOps + 1
    /\ UNCHANGED <<flow, runVars, httpVars, parseVars, editLog, moreVars, finVars, evalVars, threads,
                   storeVars, lastSet, everSet>>

\* SharedMemory().clear() and SharedMemory().clear(keep_traces=False)
StoreClear ==
    /\ flow = "store" /\ storeOps < MaxStoreOps
    /\ \E keep_traces \in BOOLEAN, db_ok \in BOOLEAN :
          /\ docgen' = clear(docgen, _Session, keep_traces, db_ok)
          /\ lastCall' = Call("clear", "", Str(""), keep_traces, db_ok, FALSE, Str(""))
    /\ lastSet' = EmptyDict
    /\ storeOps' = storeOps + 1
    /\ UNCHANGED <<flow, runVars, httpVars, parseVars, editLog, moreVars, finVars, evalVars, threads,
                   _Session, storeLog, readLog, everSet>>

StoreNext == StoreSet \/ StoreGet \/ StoreClear

SpecStore == StoreInit /\ [][StoreNext]_vars

\* C16: immediately after the clear() of a pipeline start (the default arguments), for
\* every key set before it, whatever its name, get(k, d) returns d.
C16_ClearRemovesAll ==
    (/\ flow = "store" /\ lastCall.op = "clear"
     /\ lastCall.keep_traces /\ lastCall.db_ok /\ _Session)
        => \A k \in everSet, d \in Defaults :
              Equal(get(docgen, _Session, k, d, TRUE).value, d)

\* C19: get(k, d) returns the value of the most recent set(k, .) since the last clear,
\* and d when there is none, in every configuration of the store.
C19_GetReturnsLastSet ==
    flow = "store" =>
        \A k \in StoreKeys, d \in Defaults :
            Equal(get(docgen, _Session, k, d, TRUE).value,
                  IF k \in DOMAIN lastSet THEN lastSet[k] ELSE d)

\* the key was never set, or no row holds it any more (a clear removed it)
Missing(k) == k \notin everSet \/ Matching(docgen, k) = {}

\* C20: get never raises, and for a key that was never set or that a clear removed it
\* returns the caller's default, with or without a database session and also when the
\* query fails.
C20_GetNeverRaises ==
    flow = "store" =>
        /\ lastCall.op = "get" => ~lastCall.raised
        /\ \A k \in StoreKeys, d \in Defaults, db_ok \in BOOLEAN :
              /\ ~get(docgen, _Session, k, d, db_ok).raised
              /\ (Missing(k) \/ ~_Session \/ ~db_ok)
                    => Equal(get(docgen, _Session, k, d, db_ok).value, d)

\* language was set, a clear removed it, and get("language", d) returned d
C20_Witness ==
    /\ flow = "store" /\ _Session
    /\ "language" \in everSet /\ Matching(docgen, "language") = {}
    /\ lastCall.op = "get" /\ lastCall.key = "language" /\ lastCall.db_ok
    /\ Equal(lastCall.value, lastCall.arg) /\ ~lastCall.raised

----------------------------------------------------------------------------
(* The store across the attempts of a run and across the requests of the server *)

\* C15: from the end of attempt 1's indexing until the run ends no clear and no
\* indexing write is applied to the store by a retry attempt, and every key keeps the
\* value attempt 1 wrote.
C15_RetriesKeepStore ==
    flow = "cli" =>
        /\ \A i \in DOMAIN storeLog : storeLog[i].by = 1
        /\ (\E i \in DOMAIN storeLog : storeLog[i].op = "index")
              => docgen = CodeAnalyzer_run(<<>>, _Session, CliFolder)

\* the language that the request which produced a raw output indexed
IndexedFor(raw) == Str(FolderOf(raw.id))

\* C17: every read of the store made for a pending session, its edit iteration
\* included, returns the value indexed by the invocation that created the session,
\* whatever other invocations were started in between.
C17_ReadsOwnIndex ==
    (flow = "http" /\ _Session) =>
        \A i \in DOMAIN readLog : readLog[i].got = IndexedFor(readLog[i].raw_output)

----------------------------------------------------------------------------
(* Concurrent calls on the store. Every call opens a session of its own
   (shared_memory.py:72, 104, 157); the lock of the class guards only the creation of
   the singleton (shared_memory.py:41), and the table has no unique constraint on
   task_description (shared_memory.py:20-30). A writing call is two steps, its query
   and its commit, and calls of other threads can run between the two. *)

ConcKeys == {"language", "source_files"}
ConcValues == {Str("a"), Str("b")}
WriteOps == {"set", "append_to_list"}

\* shared_memory.py:76 and 159: what the query of a writing call found, the row and the
\* JSON text it held
Queried(table, op, key, value) ==
    [op |-> op, key |-> key, value |-> value, pc |-> "queried",
     existing |-> First(table, key),
     metadata_json |-> IF First(table, key) # 0 THEN table[First(table, key)].metadata_json
                       ELSE json_dumps(List(<<>>))]

\* shared_memory.py:80-91 and 161-182: the row the call updates or adds, and the commit
Committed(table, th) ==
    LET doc == IF th.op = "set" THEN json_dumps(th.value)
               ELSE IF th.existing # 0
                    THEN json_dumps(Appended(th.metadata_json, th.value))
                    ELSE json_dumps(List(<<th.value>>))
    IN  IF th.existing # 0
        THEN [table EXCEPT ![th.existing].metadata_json = doc]
        ELSE Append(table, [task_description |-> th.key, metadata_json |-> doc])

ConcInit ==
    /\ flow = "conc"
    /\ MIN_EVAL_SCORE = 12 /\ MAX_RETRY_ATTEMPTS = 2
    /\ IdleRun /\ IdleHttp /\ IdleParse /\ IdleAux
    /\ IdleStore /\ _Session = TRUE
    /\ editLog = <<>>

\* a thread calls set or append_to_list and runs up to the result of its query
ConcQuery ==
    /\ flow = "conc" /\ Len(threads) < MaxThreads
    /\ \E op \in WriteOps, key \in ConcKeys, value \in ConcValues :
          threads' = Append(threads, Queried(docgen, op, key, value))
    /\ UNCHANGED <<flow, runVars, httpVars, parseVars, editLog, moreVars, finVars, evalVars, storeVars,
                   lastSet, everSet, lastCall, storeOps>>

\* a thread that has queried writes its row and commits
ConcCommit ==
    /\ flow = "conc"
    /\ \E i \in DOMAIN threads :
          /\ threads[i].pc = "queried"
          /\ docgen' = Committed(docgen, threads[i])
          /\ threads' = [threads EXCEPT ![i].pc = "done"]
    /\ UNCHANGED <<flow, runVars, httpVars, parseVars, editLog, moreVars, finVars, evalVars,
                   _Session, storeLog, readLog, lastSet, everSet, lastCall, storeOps>>

\* a thread calls get, which is one query
ConcGet ==
    /\ flow = "conc"
    /\ \E key \in ConcKeys, default \in Defaults :
          LET r == get(docgen, _Session, key, default, TRUE)
          IN  lastCall' = Call("get", key, default, TRUE, TRUE, r.raised, r.value)
    /\ UNCHANGED <<flow, runVars, httpVars, parseVars, editLog, moreVars, finVars, evalVars, storeVars,
                   lastSet, everSet, storeOps, threads>>

ConcNext == ConcQuery \/ ConcCommit \/ ConcGet

SpecConc == ConcInit /\ [][ConcNext]_vars

\* the writing calls on a key, and those that have committed
WritersOf(key) == {i \in DOMAIN threads : threads[i].key = key}
DoneWritersOf(key) == {i \in WritersOf(key) : threads[i].pc = "done"}

\* the value a row holds is the value of a set on its key, or a list made only of
\* values appended to its key
WrittenValue(key, val) ==
    \/ \E i \in WritersOf(key) :
          threads[i].op = "set" /\ Equal(val, json_loads(json_dumps(threads[i].value)))
    \/ /\ val.t = "list"
       /\ \A n \in DOMAIN val.v :
             \E i \in WritersOf(key) :
                 threads[i].op = "append_to_list" /\ Equal(val.v[n], threads[i].value)

\* a key written only by append_to_list holds every value appended to it
NoAppendLost(key) ==
    (\A i \in WritersOf(key) : threads[i].op = "append_to_list")
        => \A i \in DoneWritersOf(key) :
              \A r \in Matching(docgen, key) :
                  \E n \in DOMAIN docgen[r].metadata_json.v :
                      Equal(docgen[r].metadata_json.v[n], threads[i].value)

\* C18: under every interleaving of concurrent set, append_to_list and get calls the
\* store holds exactly one entry per written key, whose value is the value of one of
\* the writes to that key; no append is lost; no get returns a value never written.
C18_WritesSerialized ==
    flow = "conc" =>
        /\ \A key \in ConcKeys :
              /\ DoneWritersOf(key) # {} => Cardinality(Matching(docgen, key)) = 1
              /\ \A r \in Matching(docgen, key) :
                    WrittenValue(key, json_loads(docgen[r].metadata_json))
              /\ NoAppendLost(key)
        /\ (lastCall.op = "get" /\ ~Equal(lastCall.value, lastCall.arg))
              => WrittenValue(lastCall.key, lastCall.value)

----------------------------------------------------------------------------
(* The raw text taken from a crew after kickoff (main.py:143-155 and 184-192,
   api_server.py:94-107 and 250-252) *)

\* a task that produced a TaskOutput; its raw text may be empty
TaskOutput(raw) == [present |-> TRUE, raw |-> raw]

TaskTexts == {<<>>, <<"a">>, <<"b">>}
Outputs == {NoOutput} \cup {TaskOutput(raw) : raw \in TaskTexts}

\* str(result) of the object kickoff returned
ResultStrings == {<<>>, <<"CrewOutput">>}

\* main.py:145-155 from task i downwards: the first task whose output is truthy decides.
\* A TaskOutput object is truthy; it has no attribute result and is no str, so with an
\* empty raw the function returns str(task_output), the raw text again.
RECURSIVE FinalOutputFrom(_, _)
FinalOutputFrom(tasks, i) ==
    IF i = 0 THEN <<>>
    ELSE IF tasks[i].present THEN tasks[i].raw
    ELSE FinalOutputFrom(tasks, i - 1)

\* main.py:143-155 (the same code is api_server.py:94-107)
_extract_final_output(tasks) == FinalOutputFrom(tasks, Len(tasks))

\* main.py:188-192, the raw_output that _run_crew_traced returns
_run_crew_traced(tasks, result) ==
    LET raw == _extract_final_output(tasks)
    IN  IF raw # <<>> THEN raw
        ELSE IF result.raw # <<>> THEN result.raw
        ELSE result.str

\* api_server.py:250-252, the raw_output of generate_docs
generate_docs_raw_output(tasks, result) ==
    LET raw == _extract_final_output(tasks)
    IN  IF raw # <<>> THEN raw ELSE result.str

\* the raw text of the object kickoff returns is that of the last task
ResultOf(tasks, str) == [raw |-> tasks[Len(tasks)].raw, str |-> str]

ExtractInit ==
    /\ flow = "extract"
    /\ MIN_EVAL_SCORE = 12 /\ MAX_RETRY_ATTEMPTS = 2
    /\ IdleRun /\ IdleHttp /\ IdleParse
    /\ IdleFinalize /\ IdleEval /\ IdleCalls
    /\ IdleStore /\ _Session = TRUE
    /\ editLog = <<>>
    /\ taskOutputs \in [1..MaxTasks -> Outputs]
    /\ \E str \in ResultStrings : kickoffResult = ResultOf(taskOutputs, str)
    /\ handed = NotHanded
    /\ httpEvaluation = NotEvaluated /\ IdleHitl /\ IdleExec

\* run() takes the raw output of the crew and hands it to _extract_sections_from_crew
ExtractByRun ==
    /\ flow = "extract"
    /\ handed' = [by |-> "run", raw_output |-> _run_crew_traced(taskOutputs, kickoffResult)]
    /\ UNCHANGED <<flow, runVars, httpVars, parseVars, editLog, finVars, evalVars, callVars,
                   storeVars, taskOutputs, kickoffResult, httpEvaluation, hitlVars,
                   execVars>>

\* generate_docs takes the raw output of the crew and hands it to _split_sections
ExtractByServer ==
    /\ flow = "extract"
    /\ handed' = [by |-> "generate_docs",
                  raw_output |-> generate_docs_raw_output(taskOutputs, kickoffResult)]
    /\ UNCHANGED <<flow, runVars, httpVars, parseVars, editLog, finVars, evalVars, callVars,
                   storeVars, taskOutputs, kickoffResult, httpEvaluation, hitlVars,
                   execVars>>

ExtractNext == ExtractByRun \/ ExtractByServer

SpecExtract == ExtractInit /\ [][ExtractNext]_vars

\* the last task of the list produced no output, or an output with empty text
LastTaskEmpty == taskOutputs[Len(taskOutputs)].raw = <<>>

\* C21: when the last task produced empty or missing text, the raw text handed to the
\* Section Parser is the empty string, so the parser returns the empty mapping.
C21_EmptyLastTaskGivesEmptyText ==
    (flow = "extract" /\ handed.by # "none" /\ LastTaskEmpty)
        => /\ handed.raw_output = <<>>
           /\ _split_sections(handed.raw_output) = EmptyDict

----------------------------------------------------------------------------
(* The approval prompt and what follows an approval *)

\* C27: whenever the operator is prompted in AwaitingDecision, also after a return
\* caused by empty feedback or an unrecognized choice, the summary shown is that of the
\* current best DocumentSections, and the only outcomes are Approved and EditRequested.
C27_PromptShowsCurrentBest ==
    flow = "cli" =>
        /\ pc = "prompt" =>
              /\ displayed = sections
              /\ sections = _extract_sections_from_crew(crew_instance, raw_output)
        /\ approval_result.status \in {"none", "approved", "edit_requested"}

\* C22: on Approve the sections and the raw text given to the finalizer are exactly
\* those presented to the operator, and no executor run, re-parse or evaluation lies
\* between the approval and the finalization.
C22_ApprovedCandidateUnchanged ==
    (flow = "cli" /\ approval_result.status = "approved" /\ finalized # NoDocs) =>
        /\ finalized = [sections |-> displayed, raw_output |-> raw_output]
        /\ editLog = <<>>
        /\ execRuns = Len(evaluated) + (IF failedAt # 0 THEN 1 ELSE 0)

\* C30: with HITL a session leaves pending_sessions exactly when its documents were
\* finalized; it is finalized at most once, and a request whose regeneration or
\* finalization fails leaves it pending with its sections unchanged.
C30_RemovedIffFinalized ==
    flow = "http" =>
        \A sid \in 1..(nextSession - 1) :
            /\ sid \notin DOMAIN pending_sessions <=> FinalizationsOf(sid) # {}
            /\ Cardinality(FinalizationsOf(sid)) <= 1
            /\ sid \in DOMAIN pending_sessions =>
                  /\ pending_sessions[sid].raw_output.kind = "full"
                  /\ pending_sessions[sid].sections
                         = SectionsOf(pending_sessions[sid].raw_output)

\* the candidate of the run has been evaluated and the retry loop has ended for it:
\* the threshold is met, the attempts are used up, or the executor failed in a retry
RetryControllerDone ==
    /\ evaluated # <<>>
    /\ \E i \in DOMAIN evaluated : evaluated[i].text = raw_output
    /\ \/ avg_score >= MIN_EVAL_SCORE
       \/ attempt >= MAX_RETRY_ATTEMPTS
       \/ failedAt # 0

\* C23: in run() and in generate_docs no document set is presented for approval or
\* finalized before it was evaluated and the retry controller ended with Passed or
\* ExhaustedBestAvailable: a candidate below the threshold is never presented while
\* attempts remain.
C23_PresentedAfterGate ==
    /\ HandedOn => RetryControllerDone
    /\ flow = "http" =>
          \A sid \in DOMAIN pending_sessions :
              pending_sessions[sid].raw_output = httpEvaluation.raw_output
                  => \/ httpEvaluation.average_score >= MIN_EVAL_SCORE
                     \/ MAX_RETRY_ATTEMPTS <= 1

\* the task outputs a sections mapping falls back on belong to the executor run that
\* produced the raw text it was parsed from
SameAttempt(secs) == secs.crew.kind = secs.raw.kind /\ secs.crew.id = secs.raw.id

\* C29: the DocumentSections presented for approval and finalized by run() are derived
\* from the attempt whose text was selected as best: the task outputs used by
\* _extract_sections_from_crew are never those of a later, lower-scoring attempt.
C29_SectionsFromBestAttempt ==
    flow = "cli" =>
        /\ sections.kind = "parsed" => SameAttempt(sections) /\ sections.raw = raw_output
        /\ displayed.kind = "parsed" => SameAttempt(displayed)
        /\ finalized # NoDocs => SameAttempt(finalized.sections)

----------------------------------------------------------------------------
(* HumanInTheLoop.request_approval for either value of auto_approve
   (human_in_the_loop.py:58-102 and 158-201) *)

\* the mappings request_approval can be called with
ApprovalArguments == {EmptySections, _extract_sections_from_crew(FullCrew(1), FullText(1)),
                      _extract_sections_from_crew(FullCrew(2), FullText(1))}

\* the prompt is never skipped
SkipsPrompt_Never(flag) == FALSE

\* human_in_the_loop.py:82, the test that returns APPROVED before anything is displayed
SkipsPrompt(flag) == flag

\* what the actions of request_approval leave alone
hitlFrame == <<flow, MIN_EVAL_SCORE, MAX_RETRY_ATTEMPTS, attempt, raw_output, avg_score,
               best_output, best_score, crew_instance, sections, evaluated, execRuns,
               failedAt, finalized, httpVars, parseVars, editLog, finVars, evalVars,
               callVars, storeVars, taskVars, httpEvaluation, auto_approve, execVars>>

ApprovalInit ==
    /\ flow = "hitl"
    /\ MIN_EVAL_SCORE = 12 /\ MAX_RETRY_ATTEMPTS = 2
    /\ pc = "start"
    /\ attempt = 0 /\ raw_output = NoText /\ avg_score = 0
    /\ best_output = NoText /\ best_score = 0
    /\ crew_instance = NoCrew /\ sections \in ApprovalArguments
    /\ evaluated = <<>> /\ execRuns = 0 /\ failedAt = 0
    /\ displayed = NoSections /\ prompts = 0 /\ feedback_lines = <<>>
    /\ approval_result = NoResult /\ finalized = NoDocs
    /\ IdleHttp /\ IdleParse /\ IdleFinalize /\ IdleEval /\ IdleCalls
    /\ IdleTasks /\ httpEvaluation = NotEvaluated /\ IdleExec
    /\ IdleStore /\ _Session = TRUE
    /\ editLog = <<>>
    /\ auto_approve \in BOOLEAN /\ inputsRead = 0

\* human_in_the_loop.py:82-86: request_approval(sections) is entered
RequestApproval ==
    /\ flow = "hitl" /\ pc = "start"
    /\ IF SkipsPrompt(auto_approve)
       THEN /\ approval_result' = [status |-> "approved", feedback |-> <<>>]
            /\ pc' = "returned"
            /\ UNCHANGED displayed
       ELSE /\ displayed' = sections
            /\ pc' = "prompt"
            /\ UNCHANGED approval_result
    /\ UNCHANGED <<hitlFrame, prompts, feedback_lines, inputsRead>>

\* human_in_the_loop.py:88-102: one answer is read at the menu
ApprovalChoice ==
    /\ flow = "hitl" /\ pc = "prompt"
    /\ \E choice \in Choices :
          /\ prompts < MaxPrompts \/ choice \in {"A", "APPROVE"}
          /\ IF choice \in {"A", "APPROVE"}
             THEN /\ approval_result' = [status |-> "approved", feedback |-> <<>>]
                  /\ pc' = "returned"
             ELSE IF choice \in {"E", "EDIT"}
             THEN /\ pc' = "collect"
                  /\ UNCHANGED approval_result
             ELSE /\ pc' = "prompt"
                  /\ UNCHANGED approval_result
    /\ prompts' = prompts + 1
    /\ inputsRead' = inputsRead + 1
    /\ feedback_lines' = <<>>
    /\ UNCHANGED <<hitlFrame, displayed>>

\* human_in_the_loop.py:153: input() of the menu raises EOFError
ApprovalEOF ==
    /\ flow = "hitl" /\ pc = "prompt"
    /\ pc' = "error"
    /\ inputsRead' = inputsRead + 1
    /\ UNCHANGED <<hitlFrame, displayed, prompts, feedback_lines, approval_result>>

\* human_in_the_loop.py:188-201: the end of _handle_edit_request; without feedback the
\* nested request_approval({}, "") tests the flag again and displays the summary of {}
ApprovalFinishEdit(lines) ==
    LET feedback == CollectedFeedback(lines)
    IN  IF NoFeedback(feedback)
        THEN IF SkipsPrompt(auto_approve)
             THEN /\ approval_result' = [status |-> "approved", feedback |-> <<>>]
                  /\ pc' = "returned"
                  /\ UNCHANGED displayed
             ELSE /\ displayed' = EmptySections
                  /\ pc' = "prompt"
                  /\ UNCHANGED approval_result
        ELSE /\ approval_result' = [status |-> "edit_requested", feedback |-> feedback]
             /\ pc' = "returned"
             /\ UNCHANGED displayed

\* human_in_the_loop.py:178-186: one line of feedback is read, or the input ends
ApprovalFeedback ==
    /\ flow = "hitl" /\ pc = "collect"
    /\ inputsRead' = inputsRead + 1
    /\ \/ \E line \in InputLines :
             IF EndsInput(line, feedback_lines)
             THEN /\ ApprovalFinishEdit(feedback_lines)
                  /\ UNCHANGED feedback_lines
             ELSE /\ Len(feedback_lines) < MaxFeedbackLines
                  /\ feedback_lines' = Append(feedback_lines, line)
                  /\ UNCHANGED <<pc, approval_result, displayed>>
       \/ /\ ApprovalFinishEdit(feedback_lines)
          /\ UNCHANGED feedback_lines
    /\ UNCHANGED <<hitlFrame, prompts>>

ApprovalNext == RequestApproval \/ ApprovalChoice \/ ApprovalEOF \/ ApprovalFeedback

SpecApproval == ApprovalInit /\ [][ApprovalNext]_vars

\* C28: with the auto-approve flag set request_approval never prompts and never reads
\* input; for every sections mapping it returns Approved without feedback at once and
\* never EditRequested.
C28_AutoApproveNeverPrompts ==
    (flow = "hitl" /\ auto_approve) =>
        /\ pc \in {"start", "returned"}
        /\ prompts = 0 /\ inputsRead = 0 /\ displayed = NoSections
        /\ approval_result.status # "edit_requested"
        /\ pc = "returned" => approval_result = [status |-> "approved", feedback |-> <<>>]

\* request_approval has returned Approved for a mapping with the flag set
C28_Witness ==
    /\ flow = "hitl" /\ auto_approve /\ pc = "returned"
    /\ sections.kind = "parsed"
    /\ approval_result.status = "approved" /\ inputsRead = 0

----------------------------------------------------------------------------
(* The task list of the crew and its sequential execution (crew.py:204-260, 481-491):
   Process.sequential runs self.tasks one after another in the order of their
   definition, handing each task the outputs of the tasks named in its context *)

\* crew.py:204-260, the @task methods in the order of their definition
TaskList == <<"code_analysis_task", "api_semantics_task", "architecture_reasoning_task",
              "examples_generation_task", "getting_started_task",
              "document_assembly_task">>

\* examples_generation_task names getting_started_task, a later task, in its context
context_Later(task) ==
    CASE task = "code_analysis_task" -> {}
      [] task = "api_semantics_task" -> {"code_analysis_task"}
      [] task = "architecture_reasoning_task" -> {"code_analysis_task"}
      [] task = "examples_generation_task" -> {"api_semantics_task", "getting_started_task"}
      [] task = "getting_started_task" ->
             {"architecture_reasoning_task", "examples_generation_task"}
      [] task = "document_assembly_task" ->
             {"code_analysis_task", "api_semantics_task", "architecture_reasoning_task",
              "examples_generation_task", "getting_started_task"}

\* crew.py:208-259, the context argument of each Task
context(task) ==
    CASE task = "code_analysis_task" -> {}
      [] task = "api_semantics_task" -> {"code_analysis_task"}
      [] task = "architecture_reasoning_task" -> {"code_analysis_task"}
      [] task = "examples_generation_task" ->
             {"api_semantics_task", "architecture_reasoning_task"}
      [] task = "getting_started_task" ->
             {"architecture_reasoning_task", "examples_generation_task"}
      [] task = "document_assembly_task" ->
             {"code_analysis_task", "api_semantics_task", "architecture_reasoning_task",
              "examples_generation_task", "getting_started_task"}

\* the tasks that have produced their output in the running attempt
Produced(outputs) == {TaskList[i] : i \in DOMAIN outputs}

FolderKinds == {"dir", "file", "missing"}

\* code_analyzer.py:262-384: what the tool returns and what it leaves in the store. The
\* store is cleared before the folder is tested, and a folder that is no directory is
\* answered with a text.
CodeAnalyzer_result(table, session, folder, kind) ==
    IF kind = "dir"
    THEN [text |-> <<"summary">>, table |-> CodeAnalyzer_run(table, session, folder)]
    ELSE [text |-> <<"Error">>, table |-> clear(table, session, TRUE, TRUE)]

execFrame == <<flow, pc, MIN_EVAL_SCORE, MAX_RETRY_ATTEMPTS, raw_output, avg_score,
               best_output, best_score, crew_instance, sections, evaluated, execRuns,
               failedAt, displayed, prompts, feedback_lines, approval_result, finalized,
               httpVars, parseVars, editLog, finVars, evalVars, callVars,
               kickoffResult, handed, httpEvaluation, hitlVars, folderKind,
               _Session, storeLog, readLog>>

ExecInit ==
    /\ flow = "exec"
    /\ MIN_EVAL_SCORE = 12 /\ MAX_RETRY_ATTEMPTS = 2
    /\ IdleRun /\ IdleHttp /\ IdleParse /\ IdleFinalize /\ IdleEval /\ IdleCalls
    /\ IdleTasks /\ httpEvaluation = NotEvaluated /\ IdleHitl
    /\ editLog = <<>>
    /\ _Session = TRUE /\ storeLog = <<>> /\ readLog = <<>>
    /\ docgen \in {<<>>, CodeAnalyzer_run(<<>>, TRUE, "old")}
    /\ folderKind \in FolderKinds
    /\ running = "none" /\ lastStart = NoStart /\ execState = "idle"

\* crew().kickoff(inputs): an attempt starts with a crew whose tasks have no output
Kickoff ==
    /\ flow = "exec" /\ execState \in {"idle", "done", "error"}
    /\ attempt < MaxAttemptsBound
    /\ attempt' = attempt + 1
    /\ taskOutputs' = <<>>
    /\ execState' = "running"
    /\ UNCHANGED <<execFrame, docgen, running, lastStart>>

\* the executor starts the next task of the list
StartTask ==
    /\ flow = "exec" /\ execState = "running" /\ running = "none"
    /\ Len(taskOutputs) < Len(TaskList)
    /\ LET task == TaskList[Len(taskOutputs) + 1]
       IN  /\ running' = task
           /\ lastStart' = [task |-> task, ready |-> context(task) \subseteq Produced(taskOutputs)]
    /\ UNCHANGED <<execFrame, docgen, attempt, taskOutputs, execState>>

\* the running task ends with an output; the indexing task ends with what its tool returned
FinishTask ==
    /\ flow = "exec" /\ running # "none"
    /\ IF running = "code_analysis_task"
       THEN LET r == CodeAnalyzer_result(docgen, _Session, CliFolder, folderKind)
            IN  /\ taskOutputs' = Append(taskOutputs, TaskOutput(r.text))
                /\ docgen' = r.table
       ELSE /\ \E raw \in {<<>>, <<"a">>} : taskOutputs' = Append(taskOutputs, TaskOutput(raw))
            /\ UNCHANGED docgen
    /\ running' = "none"
    /\ execState' = IF Len(taskOutputs) + 1 = Len(TaskList) THEN "done" ELSE "running"
    /\ UNCHANGED <<execFrame, attempt, lastStart>>

\* the running task raises, which ends the kickoff
TaskRaises ==
    /\ flow = "exec" /\ running # "none"
    /\ running' = "none"
    /\ execState' = "error"
    /\ UNCHANGED <<execFrame, docgen, attempt, taskOutputs, lastStart>>

ExecNext == Kickoff \/ StartTask \/ FinishTask \/ TaskRaises

SpecExecutor == ExecInit /\ [][ExecNext]_vars

\* C26: the task list is a topological order of the dependency graph: tasks run one
\* after another in list order, and when a task starts every task named in its context
\* has produced its output in the same attempt; no task depends on itself or a later one.
C26_ListIsTopologicalOrder ==
    flow = "exec" =>
        /\ lastStart.ready
        /\ running # "none" => running = TaskList[Len(taskOutputs) + 1]
        /\ \A i \in DOMAIN TaskList :
              context(TaskList[i]) \subseteq {TaskList[j] : j \in 1..(i - 1)}

\* in a second attempt the last task has started with all five context outputs and ended
C26_Witness ==
    /\ flow = "exec" /\ attempt = 2 /\ execState = "done"
    /\ lastStart = [task |-> "document_assembly_task", ready |-> TRUE]
    /\ Len(taskOutputs) = Len(TaskList)

\* C25: when the indexer is given a folder that is missing or no directory the run ends
\* with an error before any downstream task executes, and the indexer reports the
\* failure by raising, not as an ordinary text result.
C25_IndexingFailureIsFatal ==
    (flow = "exec" /\ folderKind # "dir") =>
        /\ taskOutputs = <<>>
        /\ lastStart.task \in {"none", "code_analysis_task"}
        /\ (lastStart.task = "code_analysis_task" /\ running = "none") => execState = "error"

----------------------------------------------------------------------------
\* what the prior full run of the invocation that is being edited has indexed
PopulatedBy(read) ==
    IF read.sid = 0 THEN Str(CliFolder) ELSE IndexedFor(read.raw_output)

\* C24: the edit iteration runs an executor variant that skips the indexing task: it
\* neither clears nor writes the store, it receives the operator's feedback as input, and
\* what its tasks read from the store is the state the prior full run of the same
\* invocation has populated.
C24_EditReusesIndexedState ==
    [][Len(editLog') = Len(editLog) + 1 =>
          /\ docgen' = docgen /\ storeLog' = storeLog
          /\ flow = "cli" => editLog'[Len(editLog')].feedback = approval_result.feedback
          /\ (_Session /\ Len(readLog') = Len(readLog) + 1) =>
                readLog'[Len(readLog')].got = PopulatedBy(readLog'[Len(readLog')])]_vars

====
